---- MODULE Spec2Model ----
(***************************************************************************)
(* read-kinesis: the shard consumption engine.                             *)
(*                                                                         *)
(*   retry.js         withRetry / withRetryRecursive and its two reports   *)
(*   shard-reader.js  readFromShard / readAndAdvance, KinesisShard and the *)
(*                    process-wide adaptive batch size                     *)
(*                                                                         *)
(* A step of the model is what runs between two suspension points of the   *)
(* code: a remote call (getShardIterator, getRecords) or a backoff wait.   *)
(* The Kinesis service is the environment: it decides the outcome of each  *)
(* remote call.                                                            *)
(***************************************************************************)
EXTENDS Integers, Sequences, FiniteSets, TLC

\* ------------------------------------------------------------------ bounds

\* Most records a shard holds.
MaxRecords == 2
\* Most failures the service injects in one run of Spec.
MaxFaults == 2
\* Most empty, not caught up pages (empty timeslices) the service serves per shard.
MaxEmptyPages == 1
\* Most times a fresh cursor is started from a returned checkpoint, per shard.
MaxRestarts == 1
\* Most failures the service injects when all shards are read in ConcurrentSpec.
MaxConcurrentFaults == 1
\* Most failures the service injects when a single shard is read in ConcurrentSpec.
MaxThrottles == 14
\* Most dump commands run one after the other on the same checkpoint file.
MaxRuns == 2
\* Math.random() is drawn from { k / RandomResolution : k \in 0..RandomResolution-1 }.
RandomResolution == 4

\* ------------------------------------------------------- values of the code

\* JS undefined / null for a missing shard iterator, sequence number or timestamp.
\* Sequence numbers are 1..n, shard iterators are 1..k: 0 is the falsy value.
Null == 0
\* The value of a parameter that the caller did not pass (undefined).
Undefined == 0 - 1
\* Not-a-number: the result of arithmetic on undefined.
NaN == 0 - 2
\* No wait performed.
NoWait == 0 - 3

Min(a, b) == IF a <= b THEN a ELSE b
Max(a, b) == IF a >= b THEN a ELSE b

\* ------------------------------------------------------------------ errors

ExpiredIteratorException ==
    [code |-> "ExpiredIteratorException", retryable |-> FALSE]
\* The SDK marks throttling errors retryable; the flag is a property of the error.
ThroughputExceeded(flag) ==
    [code |-> "ProvisionedThroughputExceededException", retryable |-> flag]
InternalFailure == [code |-> "InternalFailure", retryable |-> TRUE]
ServiceUnavailable == [code |-> "ServiceUnavailable", retryable |-> TRUE]
ResourceNotFound == [code |-> "ResourceNotFoundException", retryable |-> FALSE]

\* An error thrown by the operation itself: it has no retryable property at all.
TypeError == [code |-> "TypeError"]

NoError == [code |-> "none"]

\* Mutant: the decision is taken from a list of error codes.
Retryable_ByCode(error) ==
    error.code \in {"InternalFailure", "ServiceUnavailable",
                    "ProvisionedThroughputExceededException"}

\* Mutant: throttling errors are never retried.
Retryable_ExceptThrottling(error) ==
    IF "retryable" \in DOMAIN error
        THEN error.retryable /\ error.code # "ProvisionedThroughputExceededException"
        ELSE FALSE

\* Mutant: a report that ran out of retries counts as retryable.
Retryable_OutOfRetriesToo(error) ==
    IF "retryable" \in DOMAIN error
        THEN error.retryable
        ELSE "name" \in DOMAIN error /\ error.name = "OutOfRetriesError"

\* error.retryable: undefined (falsy) on an error that has no such property.
Retryable(error) ==
    IF "retryable" \in DOMAIN error THEN error.retryable ELSE FALSE

\* ------------------------------------------------------------------ retry.js

MAX_RETRIES == 10
INITIAL_BACKOFF_MS == 10
BACKOFF_DITHER_FACTOR == 1

\* error.name: the SDK names its errors by their code, the two reports of
\* withRetry set their own name.
ErrorName(error) == IF "name" \in DOMAIN error THEN error.name ELSE error.code

\* [...new Set(names)]: the elements of names in order of first occurrence.
RECURSIVE DistinctInOrder(_)
DistinctInOrder(names) ==
    IF names = <<>>
        THEN <<>>
        ELSE LET before == DistinctInOrder(SubSeq(names, 1, Len(names) - 1))
                 name == names[Len(names)] IN
             IF \E i \in 1..Len(before) : before[i] = name
                 THEN before
                 ELSE Append(before, name)

\* The message of an OutOfRetriesError over allErrors: "Ran out of retries after
\* <count> error(s): <names joined by ', '>".
OutOfRetriesMessage(allErrors) ==
    [count |-> Len(allErrors),
     names |-> DistinctInOrder([i \in 1..Len(allErrors) |-> ErrorName(allErrors[i])])]

\* Mutant: the message is built from the previous errors only.
OutOfRetriesError_PrevOnly(lastError, prevErrors) ==
    [name |-> "OutOfRetriesError", lastError |-> lastError, prevErrors |-> prevErrors,
     message |-> OutOfRetriesMessage(prevErrors)]

OutOfRetriesError(lastError, prevErrors) ==
    [name |-> "OutOfRetriesError", lastError |-> lastError, prevErrors |-> prevErrors,
     message |-> OutOfRetriesMessage(Append(prevErrors, lastError))]

\* Mutant: the cause is bundled with the previous errors.
NonRetryableError_AllErrors(cause, prevErrors) ==
    [name |-> "NonRetryableError", lastError |-> cause,
     prevErrors |-> Append(prevErrors, cause)]

NonRetryableError(cause, prevErrors) ==
    [name |-> "NonRetryableError", lastError |-> cause, prevErrors |-> prevErrors]

\* The arguments withRetry passes to withRetryRecursive for the first attempt.
withRetry ==
    [prevErrors |-> <<>>,
     retries |-> MAX_RETRIES,
     backoff |-> INITIAL_BACKOFF_MS,
     backoffDither |-> INITIAL_BACKOFF_MS * BACKOFF_DITHER_FACTOR]

\* Math.floor(backoffDither * Math.random()), Math.random() = rnd / RandomResolution.
Dither(backoffDither, rnd) ==
    IF backoffDither = Undefined
        THEN NaN
        ELSE (backoffDither * rnd) \div RandomResolution

\* backoff + dither
WaitMs(backoff, dither) ==
    IF dither = NaN THEN NaN ELSE backoff + dither

\* The arguments of the recursive call: backoffDither is not passed on.
RetryArgs(r, error) ==
    [prevErrors |-> Append(r.prevErrors, error),
     retries |-> r.retries - 1,
     backoff |-> r.backoff + r.backoff,
     backoffDither |-> Undefined]

\* Mutant: gives up one retry early.
withRetryRecursive_OneShort(r, error, rnd) ==
    IF Retryable(error)
        THEN IF r.retries > 1
                THEN [outcome |-> "retry",
                      wait |-> IF r.backoff # 0
                                  THEN WaitMs(r.backoff, Dither(r.backoffDither, rnd))
                                  ELSE NoWait,
                      args |-> RetryArgs(r, error)]
                ELSE [outcome |-> "throw",
                      error |-> OutOfRetriesError(error, r.prevErrors)]
        ELSE [outcome |-> "throw",
              error |-> NonRetryableError(error, r.prevErrors)]

\* Mutant: no wait before the last retry.
withRetryRecursive_NoWaitOnLastRetry(r, error, rnd) ==
    IF Retryable(error)
        THEN IF r.retries # 0
                THEN [outcome |-> "retry",
                      wait |-> IF r.backoff # 0 /\ r.retries # 1
                                  THEN WaitMs(r.backoff, Dither(r.backoffDither, rnd))
                                  ELSE NoWait,
                      args |-> RetryArgs(r, error)]
                ELSE [outcome |-> "throw",
                      error |-> OutOfRetriesError(error, r.prevErrors)]
        ELSE [outcome |-> "throw",
              error |-> NonRetryableError(error, r.prevErrors)]

\* The catch block of withRetryRecursive, for the frame r = (prevErrors, retries,
\* backoff, backoffDither) whose invocation of f failed with error.
withRetryRecursive(r, error, rnd) ==
    IF Retryable(error)
        THEN IF r.retries # 0
                THEN [outcome |-> "retry",
                      wait |-> IF r.backoff # 0
                                  THEN WaitMs(r.backoff, Dither(r.backoffDither, rnd))
                                  ELSE NoWait,
                      args |-> RetryArgs(r, error)]
                ELSE [outcome |-> "throw",
                      error |-> OutOfRetriesError(error, r.prevErrors)]
        ELSE [outcome |-> "throw",
              error |-> NonRetryableError(error, r.prevErrors)]


\* --------------------------------------------------------------- the state

Shards == {"shardId-0", "shardId-1"}

VARIABLES
    \* -- withRetry(f) on its own, for an operation f the executor knows nothing of
    rt,          \* arguments of the current withRetryRecursive call
    rtState,     \* "pending" (f invoked), "waiting" (backoff), "resolved", "rejected"
    rtCalls,     \* number of invocations of f so far
    rtWaits,     \* the waits performed so far, in order (ms, or NaN)
    rtError,     \* the report withRetry rejected with, or NoError
    rtThrown,    \* the errors f rejected with so far, in attempt order
    rtResult,    \* the value withRetry resolved with, or NoResult
    \* -- the Kinesis service, per shard
    size,        \* number of records of the shard: sequence numbers 1..size[s]
    closed,      \* whether the shard is closed (its end returns no NextShardIterator)
    issued,      \* number of getShardIterator requests answered so far
    expired,     \* the shard iterators that have expired
    emptyLeft,   \* empty, not caught up pages the service may still serve
    faultsLeft,  \* failures the service may still inject
    \* -- shard-reader.js
    batchSize,   \* the module-level adaptive batch size
    pc,          \* per cursor: "ready" (has next), "busy", "exhausted", "failed";
                 \* "unread" for a shard the caller does not read
    cp,          \* the checkpoint the cursor's next starts from
    frames,      \* per cursor: the stack of withRetry calls of the advance in progress
    response,    \* the getRecords response of the last completed advance
    result,      \* the batch result the last completed advance returned
    failure,     \* the error the last failed advance rejected with, or NoError
    \* -- history
    cp0,         \* the checkpoint given to the first readFromShard
    yielded,     \* sequence numbers of all records returned to the caller, in order
    batches,     \* number of batch results returned to the caller
    adv,         \* the advance in progress or last completed: the position of
                 \* its first shard iterator (from), the ExpiredIteratorExceptions
                 \* it caught, the position its successful getRecords read at
    resumed,     \* where a fresh cursor was last started from a returned checkpoint,
                 \* or where the first advance of a next that is invoked again began
    lastUpdate,  \* the last assignment to batchSize: used size, value before and after
    restartsLeft,
    \* -- index.js
    dump,           \* the dump command: its options, how far dumpStream has come,
                    \* the error main reported
    checkpointFile  \* the lines of the checkpoint file

retryVars == <<rt, rtState, rtCalls, rtWaits, rtError, rtThrown, rtResult>>
serviceVars == <<size, closed, issued, expired, emptyLeft, faultsLeft>>
readerVars == <<batchSize, pc, cp, frames, response, result, failure>>
historyVars == <<cp0, yielded, batches, adv, resumed, lastUpdate, restartsLeft>>
shardVars == <<serviceVars, readerVars, historyVars>>
dumpVars == <<dump, checkpointFile>>
vars == <<retryVars, shardVars, dumpVars>>

\* ------------------------------------------- withRetry(f), f an opaque operation

\* Errors the opaque operation may fail with: two marked retryable, two marked not
\* retryable (one of them a throttling error), one without the property.
OpErrors ==
    {InternalFailure, ServiceUnavailable, ResourceNotFound, ThroughputExceeded(FALSE),
     TypeError}

\* withRetry has not resolved.
NoResult == 0 - 4
\* The value the operation resolves with at its n-th invocation.
OpResult(n) == n

RetryInit ==
    /\ rt = withRetry
    /\ rtState = "pending"
    /\ rtCalls = 1
    /\ rtWaits = <<>>
    /\ rtError = NoError
    /\ rtThrown = <<>>
    /\ rtResult = NoResult

\* Mutant: the first success is dropped and the operation invoked once more.
InvokeSucceeds_OnceMore ==
    /\ rtState = "pending"
    /\ IF rtCalls = Len(rtThrown) + 1
          THEN /\ rtState' = "pending"
               /\ rtCalls' = rtCalls + 1
               /\ rtResult' = rtResult
          ELSE /\ rtState' = "resolved"
               /\ rtCalls' = rtCalls
               /\ rtResult' = OpResult(rtCalls)
    /\ UNCHANGED <<rt, rtWaits, rtError, rtThrown, shardVars, dumpVars>>

\* return await f()
InvokeSucceeds ==
    /\ rtState = "pending"
    /\ rtState' = "resolved"
    /\ rtResult' = OpResult(rtCalls)
    /\ UNCHANGED <<rt, rtCalls, rtWaits, rtError, rtThrown, shardVars, dumpVars>>

\* f() rejects with error: the catch block, up to its wait or its throw.
InvokeFails(error, rnd) ==
    /\ rtState = "pending"
    /\ rtThrown' = Append(rtThrown, error)
    /\ LET o == withRetryRecursive(rt, error, rnd) IN
        IF o.outcome = "retry"
            THEN /\ rt' = o.args
                 /\ rtError' = rtError
                 /\ IF o.wait = NoWait
                       THEN /\ rtState' = "pending"
                            /\ rtCalls' = rtCalls + 1
                            /\ rtWaits' = rtWaits
                       ELSE /\ rtState' = "waiting"
                            /\ rtCalls' = rtCalls
                            /\ rtWaits' = Append(rtWaits, o.wait)
            ELSE /\ rtState' = "rejected"
                 /\ rtError' = o.error
                 /\ UNCHANGED <<rt, rtCalls, rtWaits>>
    /\ UNCHANGED <<rtResult, shardVars, dumpVars>>

\* The wait is over: the recursive call invokes f again.
BackoffElapses ==
    /\ rtState = "waiting"
    /\ rtState' = "pending"
    /\ rtCalls' = rtCalls + 1
    /\ UNCHANGED <<rt, rtWaits, rtError, rtThrown, rtResult, shardVars, dumpVars>>

RetryNext ==
    \/ InvokeSucceeds
    \/ \E error \in OpErrors, rnd \in 0..(RandomResolution - 1) : InvokeFails(error, rnd)
    \/ BackoffElapses


\* ------------------------------------------------------------ shard-reader.js

MAX_BATCH_SIZE == 10000
INITIAL_BATCH_SIZE == MAX_BATCH_SIZE \div 4
MIN_BATCH_SIZE == 1

\* Math.round(usedBatchSize * 1.5): half-way cases round up.
RoundIncrease(usedBatchSize) == (3 * usedBatchSize + 1) \div 2
\* Math.round(usedBatchSize * 0.5)
RoundDecrease(usedBatchSize) == (usedBatchSize + 1) \div 2

\* Mutant: no clamp to MAX_BATCH_SIZE.
batchSizeWasSuccessful_Unclamped(current, usedBatchSize) ==
    Max(current, RoundIncrease(usedBatchSize))

\* Mutant: grows from the current value instead of the used one.
batchSizeWasSuccessful_FromCurrent(current, usedBatchSize) ==
    Min(MAX_BATCH_SIZE, Max(current, RoundIncrease(current)))

\* Mutant: the new value is taken from the used size alone.
batchSizeWasSuccessful_FromUsedOnly(current, usedBatchSize) ==
    Min(MAX_BATCH_SIZE, RoundIncrease(usedBatchSize))

\* Mutant: a success whose size was captured before a shrink leaves the shrunk value.
batchSizeWasSuccessful_KeepsShrink(current, usedBatchSize) ==
    IF current < usedBatchSize
        THEN current
        ELSE Min(MAX_BATCH_SIZE, Max(current, RoundIncrease(usedBatchSize)))

\* The value batchSizeWasSuccessful(usedBatchSize) assigns to batchSize.
batchSizeWasSuccessful(current, usedBatchSize) ==
    Min(MAX_BATCH_SIZE, Max(current, RoundIncrease(usedBatchSize)))

\* Mutant: shrinks from the current value instead of the used one.
batchSizeWasUnsuccessful_FromCurrent(current, usedBatchSize) ==
    Max(MIN_BATCH_SIZE, Min(current, RoundDecrease(current)))

\* The value batchSizeWasUnsuccessful(usedBatchSize) assigns to batchSize.
batchSizeWasUnsuccessful(current, usedBatchSize) ==
    Max(MIN_BATCH_SIZE, Min(current, RoundDecrease(usedBatchSize)))

\* A checkpoint; an absent field is Null.
Checkpoint(shardIterator, lastReadSequenceNumber, timestamp) ==
    [shardIterator |-> shardIterator,
     lastReadSequenceNumber |-> lastReadSequenceNumber,
     timestamp |-> timestamp]

\* lastCheckpoint || {}
EmptyCheckpoint == Checkpoint(Null, Null, Null)

\* The arguments requestShardIterator sends to kinesis.getShardIterator.
requestShardIterator(iteratorType, sequenceNumber, timestamp) ==
    [ShardIteratorType |-> iteratorType,
     StartingSequenceNumber |-> sequenceNumber,
     Timestamp |-> timestamp]

\* Mutant: the new shard iterator is always requested at the trim horizon.
getShardIteratorFromLastReadSequenceNumber_TrimHorizon(lastReadSequenceNumber) ==
    requestShardIterator("TRIM_HORIZON", Null, Null)

getShardIteratorFromLastReadSequenceNumber(lastReadSequenceNumber) ==
    IF lastReadSequenceNumber # Null
        THEN requestShardIterator("AFTER_SEQUENCE_NUMBER", lastReadSequenceNumber, Null)
        ELSE requestShardIterator("TRIM_HORIZON", Null, Null)

getShardIteratorFromTimestamp(timestamp) ==
    requestShardIterator("AT_TIMESTAMP", Null, timestamp)

\* Mutant: the checkpoint's shard iterator is not used.
getShardIteratorFromCheckpoint_IgnoreIterator(checkpoint) ==
    IF checkpoint.lastReadSequenceNumber # Null
        THEN [request |-> TRUE,
              args |-> getShardIteratorFromLastReadSequenceNumber(
                           checkpoint.lastReadSequenceNumber)]
    ELSE IF checkpoint.timestamp # Null
        THEN [request |-> TRUE, args |-> getShardIteratorFromTimestamp(checkpoint.timestamp)]
    ELSE [request |-> TRUE, args |-> requestShardIterator("TRIM_HORIZON", Null, Null)]

\* Mutant: the timestamp is looked at before the last read sequence number.
getShardIteratorFromCheckpoint_TimestampFirst(checkpoint) ==
    IF checkpoint.shardIterator # Null
        THEN [request |-> FALSE, shardIterator |-> checkpoint.shardIterator]
    ELSE IF checkpoint.timestamp # Null
        THEN [request |-> TRUE, args |-> getShardIteratorFromTimestamp(checkpoint.timestamp)]
    ELSE [request |-> TRUE,
          args |-> getShardIteratorFromLastReadSequenceNumber(
                       checkpoint.lastReadSequenceNumber)]

\* Either the checkpoint's own shard iterator (no request), or the request to send.
getShardIteratorFromCheckpoint(checkpoint) ==
    IF checkpoint.shardIterator # Null
        THEN [request |-> FALSE, shardIterator |-> checkpoint.shardIterator]
    ELSE IF checkpoint.lastReadSequenceNumber # Null
        THEN [request |-> TRUE,
              args |-> getShardIteratorFromLastReadSequenceNumber(
                           checkpoint.lastReadSequenceNumber)]
    ELSE IF checkpoint.timestamp # Null
        THEN [request |-> TRUE, args |-> getShardIteratorFromTimestamp(checkpoint.timestamp)]
    ELSE [request |-> TRUE, args |-> requestShardIterator("TRIM_HORIZON", Null, Null)]

\* Mutant: exhausted only when the lag is zero and the next iterator is missing.
moreToRead_EitherOne(getRecordsResponse) ==
    \/ getRecordsResponse.MillisBehindLatest # 0
    \/ getRecordsResponse.NextShardIterator # Null

\* Mutant: stop at the first empty batch.
moreToRead_NonEmpty(getRecordsResponse) ==
    /\ Len(getRecordsResponse.Records) # 0
    /\ getRecordsResponse.NextShardIterator # Null

\* getRecordsResponse.MillisBehindLatest && getRecordsResponse.NextShardIterator
moreToRead(getRecordsResponse) ==
    /\ getRecordsResponse.MillisBehindLatest # 0
    /\ getRecordsResponse.NextShardIterator # Null

\* Mutant: the first element instead of the last.
last_First(ari) == IF Len(ari) = 0 THEN Null ELSE ari[1]

\* ari[ari.length - 1], Null (undefined) for an empty array.
last(ari) == IF Len(ari) = 0 THEN Null ELSE ari[Len(ari)]

\* Mutant: the last read sequence number is not carried over an empty batch.
getNextCheckpoint_NoCarry(getRecordsResponse, lastCheckpoint) ==
    Checkpoint(getRecordsResponse.NextShardIterator, last(getRecordsResponse.Records), Null)

\* Mutant: the next checkpoint keeps the timestamp of the last one.
getNextCheckpoint_KeepsTimestamp(getRecordsResponse, lastCheckpoint) ==
    Checkpoint(
        getRecordsResponse.NextShardIterator,
        IF last(getRecordsResponse.Records) # Null
            THEN last(getRecordsResponse.Records)
            ELSE lastCheckpoint.lastReadSequenceNumber,
        lastCheckpoint.timestamp)

getNextCheckpoint(getRecordsResponse, lastCheckpoint) ==
    Checkpoint(
        getRecordsResponse.NextShardIterator,
        IF last(getRecordsResponse.Records) # Null
            THEN last(getRecordsResponse.Records)
            ELSE lastCheckpoint.lastReadSequenceNumber,
        Null)

NoResponse == [Records |-> <<>>, MillisBehindLatest |-> 0, NextShardIterator |-> Null]

\* The batch result of readAndAdvance; next is whether it carries a next function.
BatchResult(getRecordsResponse, nextCheckpoint) ==
    [records |-> getRecordsResponse.Records,
     checkpoint |-> nextCheckpoint,
     next |-> moreToRead(getRecordsResponse)]

\* Mutant: the first cursor has next only when it was given a checkpoint.
InitialCursor_NextIfCheckpoint(lastCheckpoint) ==
    [records |-> <<>>, checkpoint |-> lastCheckpoint,
     next |-> lastCheckpoint # EmptyCheckpoint]

\* The cursor readFromShard returns: a next function and nothing else.
InitialCursor(lastCheckpoint) ==
    [records |-> <<>>, checkpoint |-> lastCheckpoint, next |-> TRUE]

\* One withRetry call on the stack of an advance: the operation it wraps, the
\* arguments of that operation, and the arguments of its withRetryRecursive call.
\*   st = "inflight"    the remote call of the current attempt is outstanding
\*        "waiting"     in the backoff wait before the next attempt
\*        "recovering"  a getRecords attempt caught ExpiredIteratorException and
\*                      awaits the frames above it
GetRecordsFrame(shardIterator, lastReadSequenceNumber, usedBatchSize) ==
    [op |-> "getRecords",
     shardIterator |-> shardIterator,
     lastReadSequenceNumber |-> lastReadSequenceNumber,
     request |-> requestShardIterator("", Null, Null),
     usedBatchSize |-> usedBatchSize,
     st |-> "inflight",
     wait |-> NoWait,
     r |-> withRetry]

\* Mutant: the request is sent once, with no retry.
GetShardIteratorFrame_NoRetry(args, lastReadSequenceNumber) ==
    [op |-> "getShardIterator",
     shardIterator |-> Null,
     lastReadSequenceNumber |-> lastReadSequenceNumber,
     request |-> args,
     usedBatchSize |-> 0,
     st |-> "inflight",
     wait |-> NoWait,
     r |-> [withRetry EXCEPT !.retries = 0]]

\* requestShardIterator(iteratorType, sequenceNumber, timestamp): a withRetry call
\* around kinesis.getShardIterator.
GetShardIteratorFrame(args, lastReadSequenceNumber) ==
    [op |-> "getShardIterator",
     shardIterator |-> Null,
     lastReadSequenceNumber |-> lastReadSequenceNumber,
     request |-> args,
     usedBatchSize |-> 0,
     st |-> "inflight",
     wait |-> NoWait,
     r |-> withRetry]

Top(fs) == fs[Len(fs)]
Front(fs) == SubSeq(fs, 1, Len(fs) - 1)

\* Mutant: the fetch re-issued by a recovery goes on with the retries its caller
\* has left.
getOneBatchOfRecords_SharedBudget(fs, shardIterator, lastReadSequenceNumber, currentBatchSize) ==
    Append(fs, [GetRecordsFrame(shardIterator, lastReadSequenceNumber, currentBatchSize)
                   EXCEPT !.r = IF fs = <<>> THEN withRetry ELSE Top(fs).r])

\* getOneBatchOfRecords({shardIterator, lastReadSequenceNumber}): a new withRetry
\* call on top of the stack, whose first attempt captures the batch size.
getOneBatchOfRecords(fs, shardIterator, lastReadSequenceNumber, currentBatchSize) ==
    Append(fs, GetRecordsFrame(shardIterator, lastReadSequenceNumber, currentBatchSize))

\* Mutant: a retry is issued with the batch size of the first attempt.
Reinvoke_KeepsLimit(frame, currentBatchSize) ==
    [frame EXCEPT !.st = "inflight", !.wait = NoWait]

\* The frame after its operation is invoked again: a getRecords attempt captures
\* the batch size of that moment.
Reinvoke(frame, currentBatchSize) ==
    [frame EXCEPT !.st = "inflight",
                  !.wait = NoWait,
                  !.usedBatchSize =
                      IF frame.op = "getRecords" THEN currentBatchSize ELSE 0]

\* The attempt of the top frame rejected with error: its withRetryRecursive either
\* retries (after a wait) or throws its report into the frame below, whose attempt
\* then rejects with that report, and so on down to the caller of the advance.
RECURSIVE Raise(_, _, _, _)
Raise(fs, error, rnd, currentBatchSize) ==
    IF fs = <<>>
        THEN [frames |-> <<>>, error |-> error]
        ELSE LET o == withRetryRecursive(Top(fs).r, error, rnd) IN
             IF o.outcome = "retry"
                 THEN [frames |->
                          Append(Front(fs),
                                 IF o.wait = NoWait
                                     THEN Reinvoke([Top(fs) EXCEPT !.r = o.args],
                                                   currentBatchSize)
                                     ELSE [Top(fs) EXCEPT !.r = o.args,
                                                          !.st = "waiting",
                                                          !.wait = o.wait]),
                       error |-> NoError]
                 ELSE Raise(Front(fs), o.error, rnd, currentBatchSize)


\* Mutant: ExpiredIteratorException handled like any retryable failure.
CatchExpiredIterator_AsRetry(fs, rnd, currentBatchSize) ==
    Raise(fs, [code |-> "ExpiredIteratorException", retryable |-> TRUE], rnd,
          currentBatchSize).frames

\* Catching ExpiredIteratorException in an attempt of the top frame: the attempt
\* requests a new shard iterator from lastReadSequenceNumber (a withRetry call of
\* its own) while its frame waits for the outcome.
CatchExpiredIterator(fs, rnd, currentBatchSize) ==
    Append(Append(Front(fs), [Top(fs) EXCEPT !.st = "recovering"]),
           GetShardIteratorFrame(
               getShardIteratorFromLastReadSequenceNumber(Top(fs).lastReadSequenceNumber),
               Top(fs).lastReadSequenceNumber))

\* ------------------------------------------------------ the Kinesis service

\* A shard iterator is an opaque value that the service decodes: the position it
\* stands at, and the getShardIterator request its chain of iterators began with.
\* Null (0) is no shard iterator.
Stride == MaxRecords + 1
ShardIterator(pos, chain) == chain * Stride + pos + 1
PosOf(shardIterator) == (shardIterator - 1) % Stride
ChainOf(shardIterator) == (shardIterator - 1) \div Stride

\* A positive MillisBehindLatest.
BehindMs == 60 * 1000

\* Record i of a shard has sequence number i and arrival time i. A position p
\* (0..size) stands before record p + 1.
PositionOf(s, args) ==
    IF args.ShardIteratorType = "AFTER_SEQUENCE_NUMBER" THEN args.StartingSequenceNumber
    ELSE IF args.ShardIteratorType = "AT_TIMESTAMP" THEN Min(args.Timestamp - 1, size[s])
    ELSE 0

\* The pages getRecords may answer with at position pos under Limit: up to Limit
\* of the remaining records. MillisBehindLatest is zero only when no record is left
\* behind the page; NextShardIterator is missing only at the end of a closed shard.
Pages(s, pos, limit) ==
    { pg \in [n : 0..Min(limit, size[s] - pos), lag : {0, BehindMs}, next : BOOLEAN] :
        /\ (pos + pg.n < size[s]) => (pg.lag # 0 /\ pg.next)
        /\ (pos + pg.n = size[s]) => (pg.next <=> ~closed[s])
        /\ (pg.n = 0 /\ pg.lag # 0 /\ pg.next) => emptyLeft[s] > 0 }

\* ------------------------------------------------------------------ history

Unknown == 0 - 1
NotResumed == [at |-> Unknown, len |-> 0]
NoAdvance == [from |-> Unknown, expiries |-> 0, at |-> Unknown]
NoUpdate == [kind |-> "none", used |-> 0, before |-> 0, after |-> 0]
Update(kind, used, before, after) ==
    [kind |-> kind, used |-> used, before |-> before, after |-> after]

\* The position the cursor stands at: that of its checkpoint's shard iterator, or
\* the end of the shard when the last response carried none.
ExpectedPos(s) ==
    IF cp[s].shardIterator # Null THEN PosOf(cp[s].shardIterator) ELSE size[s]

\* ------------------------------------------------------------------ index.js

\* args["stream-name"]
StreamName == "stream"
\* The shards the command reads, in the order of shardIds.
ShardIds == <<"shardId-0", "shardId-1">>

\* One line of the checkpoint file: JSON.stringify({time, streamName, shardId,
\* ...reader.checkpoint}).
CheckpointLine(time, streamName, shardId, checkpoint) ==
    [time |-> time,
     streamName |-> streamName,
     shardId |-> shardId,
     shardIterator |-> checkpoint.shardIterator,
     lastReadSequenceNumber |-> checkpoint.lastReadSequenceNumber]

\* `${streamName}:${shardId}`, the key of a checkpoint.
CheckpointKey(streamName, shardId) == streamName \o ":" \o shardId

\* Mutant: the first line of a key wins over the later ones.
getCheckpoints_FirstLine(content, streamName, shardId) ==
    LET found == { i \in 1..Len(content) :
                     CheckpointKey(content[i].streamName, content[i].shardId)
                         = CheckpointKey(streamName, shardId) } IN
        IF found = {}
            THEN EmptyCheckpoint
            ELSE LET line == content[CHOOSE i \in found : \A j \in found : i <= j] IN
                     Checkpoint(line.shardIterator, line.lastReadSequenceNumber, Null)

\* The checkpoint getCheckpoints finds in the file's lines for a shard: the lines
\* are reduced in order into an object keyed by stream and shard, so the last line
\* of a key wins; the provider gives undefined (the empty checkpoint) for a key
\* without a line, and for every key when there is no file (ENOENT).
getCheckpoints(content, streamName, shardId) ==
    LET found == { i \in 1..Len(content) :
                     CheckpointKey(content[i].streamName, content[i].shardId)
                         = CheckpointKey(streamName, shardId) } IN
        IF found = {}
            THEN EmptyCheckpoint
            ELSE LET line == content[CHOOSE i \in found : \A j \in found : j <= i] IN
                     Checkpoint(line.shardIterator, line.lastReadSequenceNumber, Null)

\* args.all ? await listShards(kinesis, args) : args.shard, for --shard given once
\* per shard of the stream.
GivenShardIds == [all |-> FALSE, defined |-> TRUE, ids |-> ShardIds]

\* What shardIds may be: args.shard of a command with no --shard (undefined) or
\* with --shard for every shard, the answer of listShards for a stream with no
\* shard or with its shards.
ResolvedShardIds ==
    { [all |-> FALSE, defined |-> FALSE, ids |-> <<>>],
      GivenShardIds,
      [all |-> TRUE, defined |-> TRUE, ids |-> <<>>],
      [all |-> TRUE, defined |-> TRUE, ids |-> ShardIds] }

\* new CallerError(message)
CallerError(message) == [name |-> "CallerError", message |-> message]

\* args.stopAfter of a command without --stop-after.
NoStopAfter == Undefined

\* The dump command: its options (args), how far dumpStream has come (state), the
\* error main reported, whether the checkpoint file was read, its content when the
\* command started, the runs left to later commands, and the checkpoint last
\* written to the file for each shard.
DumpCommand(state, shardIds, checkpoint, trimCheckpoints, stopAfter, before, loaded, runsLeft, written) ==
    [state |-> state, shardIds |-> shardIds, checkpoint |-> checkpoint,
     trimCheckpoints |-> trimCheckpoints, stopAfter |-> stopAfter, error |-> NoError,
     before |-> before, loaded |-> loaded, runsLeft |-> runsLeft, written |-> written]

\* The cursors are driven by a caller other than the dump command.
NoDump ==
    /\ dump = DumpCommand("none", GivenShardIds, FALSE, FALSE, NoStopAfter, <<>>, FALSE, 0,
                          [s \in Shards |-> EmptyCheckpoint])
    /\ checkpointFile = <<>>

\* ----------------------------------------------------------------- actions

\* The checkpoints the first readFromShard may be given for a shard of n records:
\* none (empty), or a timestamp to start at (--timestamp).
InitialCheckpoints(n) ==
    {EmptyCheckpoint} \cup {Checkpoint(Null, Null, t) : t \in 1..(n + 1)}

\* What a run reads: per shard its records, whether it is closed, whether the
\* caller reads it at all, and the checkpoint readFromShard is given.
Configurations ==
    { c \in [size : 0..MaxRecords, closed : BOOLEAN, read : BOOLEAN,
             empties : {0, MaxEmptyPages},
             checkpoint : InitialCheckpoints(MaxRecords)] :
        /\ c.checkpoint \in InitialCheckpoints(c.size)
        /\ ~c.read => /\ c.size = 0 /\ ~c.closed /\ c.empties = 0
                       /\ c.checkpoint = EmptyCheckpoint }

\* readFromShard(kinesis, streamName, shardId, lastCheckpoint) for every shard read.
ShardInit(config, faults) ==
    /\ size = [s \in Shards |-> config[s].size]
    /\ closed = [s \in Shards |-> config[s].closed]
    /\ issued = [s \in Shards |-> 0]
    /\ expired = [s \in Shards |-> {}]
    /\ emptyLeft = [s \in Shards |-> config[s].empties]
    /\ faultsLeft = faults
    /\ batchSize = INITIAL_BATCH_SIZE
    /\ lastUpdate = NoUpdate
    /\ pc = [s \in Shards |-> IF config[s].read THEN "ready" ELSE "unread"]
    /\ cp0 = [s \in Shards |-> config[s].checkpoint]
    /\ cp = cp0
    /\ frames = [s \in Shards |-> <<>>]
    /\ response = [s \in Shards |-> NoResponse]
    /\ result = [s \in Shards |-> InitialCursor(cp0[s])]
    /\ failure = [s \in Shards |-> NoError]
    /\ yielded = [s \in Shards |-> <<>>]
    /\ batches = [s \in Shards |-> 0]
    /\ adv = [s \in Shards |-> NoAdvance]
    /\ resumed = [s \in Shards |-> NotResumed]
    /\ restartsLeft = [s \in Shards |-> MaxRestarts]

\* The caller invokes the cursor's next: readAndAdvance up to its first remote call.
CallNext(s) ==
    /\ pc[s] = "ready"
    /\ LET it == getShardIteratorFromCheckpoint(cp[s]) IN
        /\ frames' = [frames EXCEPT ![s] =
              IF it.request
                  THEN <<GetShardIteratorFrame(it.args, cp[s].lastReadSequenceNumber)>>
                  ELSE getOneBatchOfRecords(<<>>, it.shardIterator,
                                            cp[s].lastReadSequenceNumber, batchSize)]
        /\ adv' = [adv EXCEPT ![s] =
              [from |-> IF it.request THEN Unknown ELSE PosOf(it.shardIterator),
               expiries |-> 0,
               at |-> Unknown]]
    /\ pc' = [pc EXCEPT ![s] = "busy"]
    /\ UNCHANGED <<retryVars, dumpVars, serviceVars, batchSize, cp, response, result, failure>>
    /\ UNCHANGED <<cp0, yielded, batches, resumed, lastUpdate, restartsLeft>>

\* kinesis.getShardIterator answers: requestShardIterator resolves, and the code
\* awaiting it issues its getRecords.
GetShardIteratorSucceeds(s) ==
    /\ pc[s] = "busy"
    /\ Top(frames[s]).op = "getShardIterator"
    /\ Top(frames[s]).st = "inflight"
    /\ LET pos == PositionOf(s, Top(frames[s]).request)
           ShardIteratorOut == ShardIterator(pos, issued[s]) IN
        /\ issued' = [issued EXCEPT ![s] = @ + 1]
        /\ frames' = [frames EXCEPT ![s] =
              getOneBatchOfRecords(Front(@), ShardIteratorOut,
                                   Top(@).lastReadSequenceNumber, batchSize)]
        /\ adv' = [adv EXCEPT ![s].from = IF @ = Unknown THEN pos ELSE @]
    /\ UNCHANGED <<retryVars, dumpVars, size, closed, expired, emptyLeft, faultsLeft>>
    /\ UNCHANGED <<batchSize, pc, cp, response, result, failure>>
    /\ UNCHANGED <<cp0, yielded, batches, resumed, lastUpdate, restartsLeft>>

\* Mutant: a failed advance aborts the iteration of every shard.
Reject_AbortsAll(s, error, rnd, currentBatchSize) ==
    LET raised == Raise(frames[s], error, rnd, currentBatchSize) IN
        /\ frames' = [frames EXCEPT ![s] = raised.frames]
        /\ IF raised.frames = <<>>
              THEN /\ pc' = [t \in Shards |-> "failed"]
                   /\ failure' = [failure EXCEPT ![s] = raised.error]
              ELSE UNCHANGED <<pc, failure>>

\* Mutant: the caller is given the error of the service, not the report.
Reject_Unwrapped(s, error, rnd, currentBatchSize) ==
    LET raised == Raise(frames[s], error, rnd, currentBatchSize) IN
        /\ frames' = [frames EXCEPT ![s] = raised.frames]
        /\ IF raised.frames = <<>>
              THEN /\ pc' = [pc EXCEPT ![s] = "failed"]
                   /\ failure' = [failure EXCEPT ![s] = error]
              ELSE UNCHANGED <<pc, failure>>

\* The attempt of the top frame of s rejects with error.
Reject(s, error, rnd, currentBatchSize) ==
    LET raised == Raise(frames[s], error, rnd, currentBatchSize) IN
        /\ frames' = [frames EXCEPT ![s] = raised.frames]
        /\ IF raised.frames = <<>>
              THEN /\ pc' = [pc EXCEPT ![s] = "failed"]
                   /\ failure' = [failure EXCEPT ![s] = raised.error]
              ELSE UNCHANGED <<pc, failure>>

\* kinesis.getShardIterator fails.
GetShardIteratorFails(s, error, rnd) ==
    /\ pc[s] = "busy"
    /\ Top(frames[s]).op = "getShardIterator"
    /\ Top(frames[s]).st = "inflight"
    /\ faultsLeft > 0
    /\ faultsLeft' = faultsLeft - 1
    /\ Reject(s, error, rnd, batchSize)
    /\ UNCHANGED <<retryVars, dumpVars, size, closed, issued, expired, emptyLeft>>
    /\ UNCHANGED <<batchSize, cp, response, result, historyVars>>


\* The getRecords response for page pg served to shardIterator.
GetRecordsResponse(shardIterator, pg) ==
    [Records |-> [i \in 1..pg.n |-> PosOf(shardIterator) + i],
     MillisBehindLatest |-> pg.lag,
     NextShardIterator |->
         IF pg.next
             THEN ShardIterator(PosOf(shardIterator) + pg.n, ChainOf(shardIterator))
             ELSE Null]

\* kinesis.getRecords answers with a page: the attempt grows the batch size and
\* returns the response through every frame of the stack; readAndAdvance derives
\* the next checkpoint and returns the batch result, with next if moreToRead.
GetRecordsSucceeds(s, pg) ==
    /\ pc[s] = "busy"
    /\ Top(frames[s]).op = "getRecords"
    /\ Top(frames[s]).st = "inflight"
    /\ Top(frames[s]).shardIterator \notin expired[s]
    /\ LET pos == PosOf(Top(frames[s]).shardIterator)
           getRecordsResponse == GetRecordsResponse(Top(frames[s]).shardIterator, pg) IN
        /\ pg \in Pages(s, pos, Top(frames[s]).usedBatchSize)
        /\ emptyLeft' = [emptyLeft EXCEPT ![s] =
              IF pg.n = 0 /\ pg.lag # 0 /\ pg.next THEN @ - 1 ELSE @]
        /\ batchSize' = batchSizeWasSuccessful(batchSize, Top(frames[s]).usedBatchSize)
        /\ response' = [response EXCEPT ![s] = getRecordsResponse]
        /\ result' = [result EXCEPT ![s] =
              BatchResult(getRecordsResponse, getNextCheckpoint(getRecordsResponse, cp[s]))]
        /\ cp' = [cp EXCEPT ![s] = result'[s].checkpoint]
        /\ pc' = [pc EXCEPT ![s] = IF result'[s].next THEN "ready" ELSE "exhausted"]
        /\ yielded' = [yielded EXCEPT ![s] = @ \o getRecordsResponse.Records]
        /\ adv' = [adv EXCEPT ![s].at = pos]
    /\ frames' = [frames EXCEPT ![s] = <<>>]
    /\ batches' = [batches EXCEPT ![s] = @ + 1]
    /\ UNCHANGED <<retryVars, dumpVars, size, closed, issued, expired, faultsLeft, failure>>
    /\ lastUpdate' = Update("grow", Top(frames[s]).usedBatchSize, batchSize, batchSize')
    /\ UNCHANGED <<cp0, resumed, restartsLeft>>

\* Mutant: an expired shard iterator shrinks the batch size like a throttled fetch.
GetRecordsExpired_Shrinks(s, rnd) ==
    /\ pc[s] = "busy"
    /\ Top(frames[s]).op = "getRecords"
    /\ Top(frames[s]).st = "inflight"
    /\ \/ Top(frames[s]).shardIterator \in expired[s] /\ faultsLeft' = faultsLeft
       \/ /\ Top(frames[s]).shardIterator \notin expired[s]
          /\ faultsLeft > 0
          /\ faultsLeft' = faultsLeft - 1
    /\ expired' = [expired EXCEPT ![s] = @ \cup {Top(frames[s]).shardIterator}]
    /\ batchSize' = batchSizeWasUnsuccessful(batchSize, Top(frames[s]).usedBatchSize)
    /\ frames' = [frames EXCEPT ![s] = CatchExpiredIterator(@, rnd, batchSize')]
    /\ adv' = [adv EXCEPT ![s].expiries = @ + 1]
    /\ UNCHANGED <<retryVars, dumpVars, size, closed, issued, emptyLeft>>
    /\ UNCHANGED <<pc, cp, response, result, failure>>
    /\ UNCHANGED <<cp0, yielded, batches, resumed, lastUpdate, restartsLeft>>

\* kinesis.getRecords fails with ExpiredIteratorException: the shard iterator has
\* expired (and stays expired).
GetRecordsExpired(s, rnd) ==
    /\ pc[s] = "busy"
    /\ Top(frames[s]).op = "getRecords"
    /\ Top(frames[s]).st = "inflight"
    /\ \/ Top(frames[s]).shardIterator \in expired[s] /\ faultsLeft' = faultsLeft
       \/ /\ Top(frames[s]).shardIterator \notin expired[s]
          /\ faultsLeft > 0
          /\ faultsLeft' = faultsLeft - 1
    /\ expired' = [expired EXCEPT ![s] = @ \cup {Top(frames[s]).shardIterator}]
    /\ frames' = [frames EXCEPT ![s] = CatchExpiredIterator(@, rnd, batchSize)]
    /\ adv' = [adv EXCEPT ![s].expiries = @ + 1]
    /\ UNCHANGED <<retryVars, dumpVars, size, closed, issued, emptyLeft>>
    /\ UNCHANGED <<batchSize, pc, cp, response, result, failure>>
    /\ UNCHANGED <<cp0, yielded, batches, resumed, lastUpdate, restartsLeft>>

\* kinesis.getRecords fails with ProvisionedThroughputExceededException: the
\* attempt shrinks the batch size and rethrows.
GetRecordsThrottled(s, flag, rnd) ==
    /\ pc[s] = "busy"
    /\ Top(frames[s]).op = "getRecords"
    /\ Top(frames[s]).st = "inflight"
    /\ faultsLeft > 0
    /\ faultsLeft' = faultsLeft - 1
    /\ batchSize' = batchSizeWasUnsuccessful(batchSize, Top(frames[s]).usedBatchSize)
    /\ lastUpdate' = Update("shrink", Top(frames[s]).usedBatchSize, batchSize, batchSize')
    /\ Reject(s, ThroughputExceeded(flag), rnd, batchSize')
    /\ UNCHANGED <<retryVars, dumpVars, size, closed, issued, expired, emptyLeft>>
    /\ UNCHANGED <<cp, response, result, cp0, yielded, batches, adv, resumed, restartsLeft>>

\* kinesis.getRecords fails with any other error: the attempt rethrows it.
GetRecordsFails(s, error, rnd) ==
    /\ pc[s] = "busy"
    /\ Top(frames[s]).op = "getRecords"
    /\ Top(frames[s]).st = "inflight"
    /\ faultsLeft > 0
    /\ faultsLeft' = faultsLeft - 1
    /\ Reject(s, error, rnd, batchSize)
    /\ UNCHANGED <<retryVars, dumpVars, size, closed, issued, expired, emptyLeft>>
    /\ UNCHANGED <<batchSize, cp, response, result, historyVars>>

\* The backoff wait of the top frame is over: its operation is invoked again.
WaitElapses(s) ==
    /\ pc[s] = "busy"
    /\ Top(frames[s]).st = "waiting"
    /\ frames' = [frames EXCEPT ![s] = Append(Front(@), Reinvoke(Top(@), batchSize))]
    /\ UNCHANGED <<retryVars, dumpVars, serviceVars, batchSize, pc, cp, response, result, failure>>
    /\ UNCHANGED historyVars

\* A fresh readFromShard is given the checkpoint of the last batch result (a later
\* run that loaded it, or a second cursor): its next starts from that checkpoint.
Restart(s) ==
    /\ pc[s] \in {"ready", "exhausted"}
    /\ batches[s] > 0
    /\ restartsLeft[s] > 0
    /\ restartsLeft' = [restartsLeft EXCEPT ![s] = @ - 1]
    /\ pc' = [pc EXCEPT ![s] = "ready"]
    /\ resumed' = [resumed EXCEPT ![s] = [at |-> ExpectedPos(s), len |-> Len(yielded[s])]]
    /\ UNCHANGED <<retryVars, dumpVars, serviceVars, batchSize, cp, frames, response, result, failure>>
    /\ UNCHANGED <<cp0, yielded, batches, adv, lastUpdate>>

\* Mutant: a next invoked again goes on from the checkpoint of the latest batch
\* result.
CallNextAgain_FromLatest(s) ==
    /\ pc[s] \in {"ready", "exhausted"}
    /\ batches[s] = 1
    /\ resumed[s] = NotResumed
    /\ resumed' = [resumed EXCEPT ![s] = [at |-> adv[s].from, len |-> Len(yielded[s])]]
    /\ LET it == getShardIteratorFromCheckpoint(cp[s]) IN
        /\ frames' = [frames EXCEPT ![s] =
              IF it.request
                  THEN <<GetShardIteratorFrame(it.args, cp[s].lastReadSequenceNumber)>>
                  ELSE getOneBatchOfRecords(<<>>, it.shardIterator,
                                            cp[s].lastReadSequenceNumber, batchSize)]
        /\ adv' = [adv EXCEPT ![s] =
              [from |-> IF it.request THEN Unknown ELSE PosOf(it.shardIterator),
               expiries |-> 0,
               at |-> Unknown]]
    /\ pc' = [pc EXCEPT ![s] = "busy"]
    /\ UNCHANGED <<retryVars, dumpVars, serviceVars, batchSize, cp, response, result, failure>>
    /\ UNCHANGED <<cp0, yielded, batches, lastUpdate, restartsLeft>>

\* The caller invokes, a second time, the next of the initial cursor after the
\* advance of its first invocation has returned: readAndAdvance is called with the
\* checkpoint that next closed over, the one readFromShard was given.
CallNextAgain(s) ==
    /\ pc[s] \in {"ready", "exhausted"}
    /\ batches[s] = 1
    /\ resumed[s] = NotResumed
    /\ resumed' = [resumed EXCEPT ![s] = [at |-> adv[s].from, len |-> Len(yielded[s])]]
    /\ cp' = [cp EXCEPT ![s] = cp0[s]]
    /\ LET it == getShardIteratorFromCheckpoint(cp0[s]) IN
        /\ frames' = [frames EXCEPT ![s] =
              IF it.request
                  THEN <<GetShardIteratorFrame(it.args, cp0[s].lastReadSequenceNumber)>>
                  ELSE getOneBatchOfRecords(<<>>, it.shardIterator,
                                            cp0[s].lastReadSequenceNumber, batchSize)]
        /\ adv' = [adv EXCEPT ![s] =
              [from |-> IF it.request THEN Unknown ELSE PosOf(it.shardIterator),
               expiries |-> 0,
               at |-> Unknown]]
    /\ pc' = [pc EXCEPT ![s] = "busy"]
    /\ UNCHANGED <<retryVars, dumpVars, serviceVars, batchSize, response, result, failure>>
    /\ UNCHANGED <<cp0, yielded, batches, lastUpdate, restartsLeft>>

\* Errors of the service other than the two getOneBatchOfRecords looks for.
OtherErrors == {InternalFailure, ResourceNotFound}
Randoms == 0..(RandomResolution - 1)

\* One cursor, read from any checkpoint against any shard, with service failures.
Init ==
    /\ RetryInit
    /\ NoDump
    /\ \E config \in [Shards -> Configurations] :
          /\ config["shardId-0"].read
          /\ config["shardId-0"].empties = MaxEmptyPages
          /\ ~config["shardId-1"].read
          /\ ShardInit(config, MaxFaults)

Pg == [n : 0..MaxRecords, lag : {0, BehindMs}, next : BOOLEAN]

Next ==
    \/ \E s \in Shards : CallNext(s)
    \/ \E s \in Shards : GetShardIteratorSucceeds(s)
    \/ \E s \in Shards, error \in OtherErrors, rnd \in Randoms :
          GetShardIteratorFails(s, error, rnd)
    \/ \E s \in Shards, pg \in Pg : GetRecordsSucceeds(s, pg)
    \/ \E s \in Shards, rnd \in Randoms : GetRecordsExpired(s, rnd)
    \/ \E s \in Shards, flag \in BOOLEAN, rnd \in Randoms : GetRecordsThrottled(s, flag, rnd)
    \/ \E s \in Shards, error \in OtherErrors, rnd \in Randoms :
          GetRecordsFails(s, error, rnd)
    \/ \E s \in Shards : WaitElapses(s)
    \/ \E s \in Shards : Restart(s)

Spec == Init /\ [][Next]_vars

\* withRetry(f) alone, f an operation other than a call of the shard reader: no
\* cursor is advanced meanwhile.
RetryAloneInit ==
    /\ RetryInit
    /\ NoDump
    /\ ShardInit([s \in Shards |->
                    [size |-> 0, closed |-> FALSE, read |-> FALSE, empties |-> 0,
                     checkpoint |-> EmptyCheckpoint]],
                 0)

RetrySpec == RetryAloneInit /\ [][RetryNext]_vars

\* withRetry(f) for an operation whose every invocation settles, with timers that
\* fire.
FairRetrySpec ==
    /\ RetryAloneInit
    /\ [][RetryNext]_vars
    /\ WF_vars(InvokeSucceeds
                 \/ \E error \in OpErrors, rnd \in 0..(RandomResolution - 1) :
                        InvokeFails(error, rnd))
    /\ WF_vars(BackoffElapses)

\* The cursors of a run share batchSize and interleave at every remote call and
\* every backoff wait. Either every shard of the stream is read at once
\* (Promise.all over dumpShard) against a service that fails a few calls, or one
\* shard is read against a service that throttles call after call.
ConcurrentInit ==
    /\ RetryInit
    /\ NoDump
    /\ \/ ShardInit([s \in Shards |->
                       [size |-> 1, closed |-> FALSE, read |-> TRUE, empties |-> 0,
                        checkpoint |-> EmptyCheckpoint]],
                    MaxConcurrentFaults)
       \/ ShardInit([s \in Shards |->
                       [size |-> 0, closed |-> FALSE, read |-> s = "shardId-0",
                        empties |-> 0, checkpoint |-> EmptyCheckpoint]],
                    MaxThrottles)

ConcurrentNext ==
    \/ \E s \in Shards : CallNext(s)
    \/ \E s \in Shards : GetShardIteratorSucceeds(s)
    \/ \E s \in Shards, pg \in Pg : GetRecordsSucceeds(s, pg)
    \/ \E s \in Shards, rnd \in Randoms : GetRecordsExpired(s, rnd)
    \/ \E s \in Shards, flag \in BOOLEAN, rnd \in Randoms : GetRecordsThrottled(s, flag, rnd)
    \/ \E s \in Shards : WaitElapses(s)

ConcurrentSpec == ConcurrentInit /\ [][ConcurrentNext]_vars

\* The steps of the cursor of shard s in ConcurrentSpec.
CursorStep(s) ==
    \/ CallNext(s)
    \/ GetShardIteratorSucceeds(s)
    \/ \E pg \in Pg : GetRecordsSucceeds(s, pg)
    \/ \E rnd \in Randoms : GetRecordsExpired(s, rnd)
    \/ \E flag \in BOOLEAN, rnd \in Randoms : GetRecordsThrottled(s, flag, rnd)
    \/ WaitElapses(s)

\* Every shard of the stream read at once.
AllShardsInit ==
    /\ RetryInit
    /\ NoDump
    /\ ShardInit([s \in Shards |->
                    [size |-> 1, closed |-> FALSE, read |-> TRUE, empties |-> 0,
                     checkpoint |-> EmptyCheckpoint]],
                 MaxConcurrentFaults)

\* All shards read at once by a caller that keeps driving every cursor that has
\* next, against a service that answers every call, with timers that fire.
FairConcurrentSpec ==
    /\ AllShardsInit
    /\ [][ConcurrentNext]_vars
    /\ \A s \in Shards : WF_vars(CursorStep(s))

\* ------------------------------------------------------------ the dump command

\* What the checkpoint file may hold when the command starts: nothing (or no file),
\* a line of another stream, or a line an earlier run wrote for one of the shards.
PriorFiles ==
    { <<>>,
      <<CheckpointLine("earlier", "other-stream", "shardId-0", Checkpoint(Null, 1, Null))>>,
      <<CheckpointLine("earlier", StreamName, "shardId-0", Checkpoint(Null, 1, Null))>> }

\* The checkpoint of the line an earlier run wrote for shard s of the stream into a
\* file of PriorFiles, empty when it wrote none.
PriorCheckpoint(before, s) ==
    IF /\ Len(before) = 1
       /\ before[1].streamName = StreamName
       /\ before[1].shardId = s
        THEN Checkpoint(before[1].shardIterator, before[1].lastReadSequenceNumber, Null)
        ELSE EmptyCheckpoint

\* dumpStream up to Promise.all: the checkpoints are loaded when --checkpoint is
\* given, and dumpShard is started for every shard.
DumpInit ==
    /\ RetryInit
    /\ \E checkpoint \in BOOLEAN, trimCheckpoints \in BOOLEAN, before \in PriorFiles :
          /\ trimCheckpoints => checkpoint
          /\ dump = DumpCommand("running", GivenShardIds, checkpoint, trimCheckpoints,
                                NoStopAfter, before, checkpoint, 0,
                                [s \in Shards |-> PriorCheckpoint(before, s)])
          /\ checkpointFile = before
          /\ ShardInit([s \in Shards |->
                          [size |-> 1, closed |-> FALSE, read |-> TRUE, empties |-> 0,
                           checkpoint |->
                               IF checkpoint
                                   THEN getCheckpoints(before, StreamName, s)
                                   ELSE EmptyCheckpoint]],
                       MaxConcurrentFaults)

\* record.ApproximateArrivalTimestamp: the records of a shard arrive in the order
\* of their sequence numbers, one per unit of time.
ApproximateArrivalTimestamp(record) == record

\* Mutant: the loop also stops at a batch whose last record arrived at stopAfter.
Stopped_AtOrAfter(s) ==
    /\ batches[s] > 0
    /\ dump.stopAfter # NoStopAfter
    /\ Len(result[s].records) > 0
    /\ ApproximateArrivalTimestamp(result[s].records[Len(result[s].records)])
          >= dump.stopAfter

\* The break of dumpShard's loop: --stop-after is given, the batch just written
\* has records, and its last record arrived after stopAfter.
Stopped(s) ==
    /\ batches[s] > 0
    /\ dump.stopAfter # NoStopAfter
    /\ Len(result[s].records) > 0
    /\ ApproximateArrivalTimestamp(result[s].records[Len(result[s].records)])
          > dump.stopAfter

\* dumpShard has left its loop and returned its checkpoint: the reader has no next,
\* or the loop broke.
DumpShardReturned(s) ==
    \/ pc[s] = "exhausted"
    \/ pc[s] = "ready" /\ Stopped(s)

\* The lines dumpStream writes: one per shard, in the order of shardIds, each with
\* the checkpoint of the last batch result of that shard's dumpShard.
NewCheckpointLines ==
    [i \in 1..Len(ShardIds) |->
        CheckpointLine("now", StreamName, ShardIds[i], result[ShardIds[i]].checkpoint)]

\* A dumpShard has rejected, or every dumpShard has returned: the promise of
\* Promise.all is settled and dumpStream continues before any other callback runs.
DumpPending ==
    /\ dump.state = "running"
    /\ \/ \E s \in Shards : pc[s] = "failed"
       \/ \A s \in Shards : DumpShardReturned(s)

\* Mutant: the checkpoints of the shards that completed are written on failure.
DumpRejects_SavesCompleted ==
    /\ dump.state = "running"
    /\ \E s \in Shards :
          /\ pc[s] = "failed"
          /\ dump' = [dump EXCEPT !.state = "failed", !.error = failure[s]]
    /\ checkpointFile' =
          checkpointFile \o
              SelectSeq(NewCheckpointLines, LAMBDA line : DumpShardReturned(line.shardId))
    /\ UNCHANGED <<retryVars, shardVars>>

\* A dumpShard rejects: Promise.all rejects, dumpStream throws, main reports the
\* error and sets the exit code. Nothing is written.
DumpRejects ==
    /\ dump.state = "running"
    /\ \E s \in Shards :
          /\ pc[s] = "failed"
          /\ dump' = [dump EXCEPT !.state = "failed", !.error = failure[s]]
    /\ UNCHANGED <<retryVars, shardVars, checkpointFile>>

\* Mutant: the lines are appended also with --trim-checkpoints.
DumpCompletes_AlwaysAppends ==
    /\ dump.state = "running"
    /\ \A s \in Shards : DumpShardReturned(s)
    /\ dump' = [dump EXCEPT !.state = "done",
                            !.written = IF dump.checkpoint
                                            THEN [s \in Shards |-> result[s].checkpoint]
                                            ELSE @]
    /\ checkpointFile' =
          IF dump.checkpoint THEN checkpointFile \o NewCheckpointLines ELSE checkpointFile
    /\ UNCHANGED <<retryVars, shardVars>>

\* Every dumpShard has returned: with --checkpoint dumpStream writes the new
\* checkpoints, replacing the file's content with --trim-checkpoints and appending
\* to it otherwise.
DumpCompletes ==
    /\ dump.state = "running"
    /\ \A s \in Shards : DumpShardReturned(s)
    /\ dump' = [dump EXCEPT !.state = "done",
                            !.written = IF dump.checkpoint
                                            THEN [s \in Shards |-> result[s].checkpoint]
                                            ELSE @]
    /\ checkpointFile' =
          IF dump.checkpoint
              THEN IF dump.trimCheckpoints
                       THEN NewCheckpointLines
                       ELSE checkpointFile \o NewCheckpointLines
              ELSE checkpointFile
    /\ UNCHANGED <<retryVars, shardVars>>

\* The dump command: every dumpShard drives its cursor while it has next and the
\* loop has not broken.
DumpNext ==
    \/ ~DumpPending /\ \E s \in Shards : ~Stopped(s) /\ CursorStep(s)
    \/ DumpRejects
    \/ DumpCompletes

DumpSpec == DumpInit /\ [][DumpNext]_vars

\* Mutant: the shard IDs are looked at after the checkpoints are loaded.
DumpStarts_ChecksAfterLoad ==
    /\ dump.state = "start"
    /\ LET shardIds == dump.shardIds IN
        IF ~shardIds.defined \/ Len(shardIds.ids) = 0
            THEN /\ dump' = [dump EXCEPT !.state = "failed",
                                         !.loaded = dump.checkpoint,
                                         !.error = CallerError("No shard IDs specified")]
                 /\ UNCHANGED <<pc, cp0, cp, result>>
            ELSE /\ dump' = [dump EXCEPT !.state = "running", !.loaded = dump.checkpoint]
                 /\ cp0' = [s \in Shards |->
                       IF \E i \in 1..Len(shardIds.ids) : shardIds.ids[i] = s
                           THEN IF dump.checkpoint
                                    THEN getCheckpoints(checkpointFile, StreamName, s)
                                    ELSE EmptyCheckpoint
                           ELSE cp0[s]]
                 /\ cp' = cp0'
                 /\ result' = [s \in Shards |-> InitialCursor(cp0'[s])]
                 /\ pc' = [s \in Shards |->
                       IF \E i \in 1..Len(shardIds.ids) : shardIds.ids[i] = s
                           THEN "ready"
                           ELSE pc[s]]
    /\ UNCHANGED <<retryVars, serviceVars, checkpointFile>>
    /\ UNCHANGED <<batchSize, frames, response, failure>>
    /\ UNCHANGED <<yielded, batches, adv, resumed, lastUpdate, restartsLeft>>

\* dumpStream up to Promise.all: the shard IDs are those listShards answers with
\* --all and those of --shard otherwise; with none, dumpStream throws a
\* CallerError, which main reports. Otherwise the checkpoints are loaded (the file
\* is read with --checkpoint) and dumpShard is started for every shard ID with the
\* checkpoint of its key.
DumpStarts ==
    /\ dump.state = "start"
    /\ LET shardIds == dump.shardIds IN
        IF ~shardIds.defined \/ Len(shardIds.ids) = 0
            THEN /\ dump' = [dump EXCEPT !.state = "failed",
                                         !.error = CallerError("No shard IDs specified")]
                 /\ UNCHANGED <<pc, cp0, cp, result>>
            ELSE /\ dump' = [dump EXCEPT !.state = "running", !.loaded = dump.checkpoint]
                 /\ cp0' = [s \in Shards |->
                       IF \E i \in 1..Len(shardIds.ids) : shardIds.ids[i] = s
                           THEN IF dump.checkpoint
                                    THEN getCheckpoints(checkpointFile, StreamName, s)
                                    ELSE EmptyCheckpoint
                           ELSE cp0[s]]
                 /\ cp' = cp0'
                 /\ result' = [s \in Shards |-> InitialCursor(cp0'[s])]
                 /\ pc' = [s \in Shards |->
                       IF \E i \in 1..Len(shardIds.ids) : shardIds.ids[i] = s
                           THEN "ready"
                           ELSE pc[s]]
    /\ UNCHANGED <<retryVars, serviceVars, checkpointFile>>
    /\ UNCHANGED <<batchSize, frames, response, failure>>
    /\ UNCHANGED <<yielded, batches, adv, resumed, lastUpdate, restartsLeft>>

\* The command has ended and is run again with the same options: a new process,
\* with a fresh shard reader, against the same stream and checkpoint file.
DumpRunsAgain ==
    /\ dump.state \in {"done", "failed"}
    /\ dump.runsLeft > 0
    /\ dump' = [dump EXCEPT !.state = "start", !.error = NoError, !.loaded = FALSE,
                            !.before = checkpointFile, !.runsLeft = @ - 1]
    /\ batchSize' = INITIAL_BATCH_SIZE
    /\ lastUpdate' = NoUpdate
    /\ pc' = [s \in Shards |-> "unread"]
    /\ cp0' = [s \in Shards |-> EmptyCheckpoint]
    /\ cp' = cp0'
    /\ frames' = [s \in Shards |-> <<>>]
    /\ response' = [s \in Shards |-> NoResponse]
    /\ result' = [s \in Shards |-> InitialCursor(EmptyCheckpoint)]
    /\ failure' = [s \in Shards |-> NoError]
    /\ yielded' = [s \in Shards |-> <<>>]
    /\ batches' = [s \in Shards |-> 0]
    /\ adv' = [s \in Shards |-> NoAdvance]
    /\ resumed' = [s \in Shards |-> NotResumed]
    /\ UNCHANGED <<retryVars, serviceVars, restartsLeft, checkpointFile>>

\* No readFromShard yet: the shards of the stream, before the command reads them.
StreamInit(sizes, empties, faults) ==
    ShardInit([s \in Shards |->
                 [size |-> sizes[s], closed |-> FALSE, read |-> FALSE,
                  empties |-> empties[s], checkpoint |-> EmptyCheckpoint]],
              faults)

\* The dump command is entered: with any outcome of the shard IDs against a service
\* that fails a call; or with --stop-after against a shard of several records; or
\* with --checkpoint, to be run again on the file it leaves.
CommandInit ==
    /\ RetryInit
    /\ \/ \E shardIds \in ResolvedShardIds, before \in PriorFiles :
             /\ dump = DumpCommand("start", shardIds, TRUE, FALSE, NoStopAfter, before,
                                   FALSE, 0, [s \in Shards |-> PriorCheckpoint(before, s)])
             /\ checkpointFile = before
             /\ StreamInit([s \in Shards |-> 1], [s \in Shards |-> 0],
                           MaxConcurrentFaults)
       \/ \E stopAfter \in 0..MaxRecords :
             /\ dump = DumpCommand("start", GivenShardIds, TRUE, FALSE, stopAfter, <<>>,
                                   FALSE, 0, [s \in Shards |-> EmptyCheckpoint])
             /\ checkpointFile = <<>>
             /\ StreamInit([s \in Shards |-> IF s = "shardId-0" THEN MaxRecords ELSE 1],
                           [s \in Shards |-> IF s = "shardId-0" THEN MaxEmptyPages ELSE 0],
                           0)
       \/ \E trimCheckpoints \in BOOLEAN, before \in PriorFiles :
             /\ dump = DumpCommand("start", GivenShardIds, TRUE, trimCheckpoints,
                                   NoStopAfter, before, FALSE, MaxRuns - 1,
                                   [s \in Shards |-> PriorCheckpoint(before, s)])
             /\ checkpointFile = before
             /\ StreamInit([s \in Shards |-> IF s = "shardId-0" THEN 1 ELSE 0],
                           [s \in Shards |-> 0], 0)

CommandNext ==
    \/ DumpStarts
    \/ DumpNext
    \/ DumpRunsAgain

CommandSpec == CommandInit /\ [][CommandNext]_vars

\* A chain of shard iterators that began in an earlier run.
PriorChain == MaxFaults + MaxRestarts + 2

\* Any checkpoint a caller may hand to readFromShard for a shard of n records: each
\* of its three fields present or absent, the shard iterator one of an earlier run.
AnyCheckpoints(n) ==
    { Checkpoint(shardIterator, lastReadSequenceNumber, timestamp) :
        shardIterator \in {Null} \cup {ShardIterator(pos, PriorChain) : pos \in 0..n},
        lastReadSequenceNumber \in {Null} \cup 1..n,
        timestamp \in {Null} \cup 1..(n + 1) }

\* One cursor started from any checkpoint, against a service that does not fail.
ResolveInit ==
    /\ RetryInit
    /\ NoDump
    /\ \E n \in 0..MaxRecords, c \in BOOLEAN : \E checkpoint \in AnyCheckpoints(n) :
          ShardInit([s \in Shards |->
                        IF s = "shardId-0"
                            THEN [size |-> n, closed |-> c, read |-> TRUE, empties |-> 0,
                                  checkpoint |-> checkpoint]
                            ELSE [size |-> 0, closed |-> FALSE, read |-> FALSE,
                                  empties |-> 0, checkpoint |-> EmptyCheckpoint]],
                    0)

ResolveNext ==
    \/ \E s \in Shards : CallNext(s)
    \/ \E s \in Shards : GetShardIteratorSucceeds(s)
    \/ \E s \in Shards, pg \in Pg : GetRecordsSucceeds(s, pg)

ResolveSpec == ResolveInit /\ [][ResolveNext]_vars

\* One cursor against a service that fails call after call: getShardIterator with
\* any error, getRecords with an expired shard iterator or an error that is not
\* retryable. The cursor starts with no checkpoint, from a timestamp, or from the
\* last read sequence number of an earlier run.
FailureInit ==
    /\ RetryInit
    /\ NoDump
    /\ \E checkpoint \in {EmptyCheckpoint, Checkpoint(Null, Null, 1), Checkpoint(Null, 1, Null)} :
          ShardInit([s \in Shards |->
                        IF s = "shardId-0"
                            THEN [size |-> 1, closed |-> FALSE, read |-> TRUE, empties |-> 0,
                                  checkpoint |-> checkpoint]
                            ELSE [size |-> 0, closed |-> FALSE, read |-> FALSE,
                                  empties |-> 0, checkpoint |-> EmptyCheckpoint]],
                    MaxThrottles)

FailureNext ==
    \/ \E s \in Shards : CallNext(s)
    \/ \E s \in Shards : GetShardIteratorSucceeds(s)
    \/ \E s \in Shards, error \in OtherErrors, rnd \in Randoms :
          GetShardIteratorFails(s, error, rnd)
    \/ \E s \in Shards, pg \in Pg : GetRecordsSucceeds(s, pg)
    \/ \E s \in Shards, rnd \in Randoms : GetRecordsExpired(s, rnd)
    \/ \E s \in Shards, rnd \in Randoms : GetRecordsThrottled(s, FALSE, rnd)
    \/ \E s \in Shards, rnd \in Randoms : GetRecordsFails(s, ResourceNotFound, rnd)
    \/ \E s \in Shards : WaitElapses(s)

FailureSpec == FailureInit /\ [][FailureNext]_vars

\* One cursor started from a checkpoint that holds a timestamp only (as --timestamp
\* gives), against a service that lets shard iterators expire.
TimestampInit ==
    /\ RetryInit
    /\ NoDump
    /\ \E n \in 1..MaxRecords : \E timestamp \in 1..(n + 1) :
          ShardInit([s \in Shards |->
                        IF s = "shardId-0"
                            THEN [size |-> n, closed |-> FALSE, read |-> TRUE,
                                  empties |-> MaxEmptyPages,
                                  checkpoint |-> Checkpoint(Null, Null, timestamp)]
                            ELSE [size |-> 0, closed |-> FALSE, read |-> FALSE,
                                  empties |-> 0, checkpoint |-> EmptyCheckpoint]],
                    MaxFaults)

TimestampNext ==
    \/ \E s \in Shards : CallNext(s)
    \/ \E s \in Shards : GetShardIteratorSucceeds(s)
    \/ \E s \in Shards, pg \in Pg : GetRecordsSucceeds(s, pg)
    \/ \E s \in Shards, rnd \in Randoms : GetRecordsExpired(s, rnd)

TimestampSpec == TimestampInit /\ [][TimestampNext]_vars

\* The checkpoints a next may hold for a shard of n records: none, a timestamp
\* (the next of the initial cursor), or the checkpoint of a batch result of an
\* earlier cursor: a shard iterator standing after the last record read, if any,
\* or the last read sequence number alone.
HeldCheckpoints(n) ==
    {EmptyCheckpoint}
        \cup {Checkpoint(Null, Null, timestamp) : timestamp \in 1..(n + 1)}
        \cup {Checkpoint(ShardIterator(pos, PriorChain), Null, Null) : pos \in 0..n}
        \cup {Checkpoint(ShardIterator(pos, PriorChain), pos, Null) : pos \in 1..n}
        \cup {Checkpoint(Null, pos, Null) : pos \in 1..n}

\* One cursor whose first next is invoked, and invoked again once its advance has
\* returned, against a service that lets shard iterators expire.
ReinvokeInit ==
    /\ RetryInit
    /\ NoDump
    /\ \E n \in 0..MaxRecords : \E checkpoint \in HeldCheckpoints(n) :
          ShardInit([s \in Shards |->
                        IF s = "shardId-0"
                            THEN [size |-> n, closed |-> FALSE, read |-> TRUE,
                                  empties |-> MaxEmptyPages, checkpoint |-> checkpoint]
                            ELSE [size |-> 0, closed |-> FALSE, read |-> FALSE,
                                  empties |-> 0, checkpoint |-> EmptyCheckpoint]],
                    MaxFaults)

ReinvokeNext ==
    \/ \E s \in Shards : CallNext(s)
    \/ \E s \in Shards : CallNextAgain(s)
    \/ \E s \in Shards : GetShardIteratorSucceeds(s)
    \/ \E s \in Shards, pg \in Pg : GetRecordsSucceeds(s, pg)
    \/ \E s \in Shards, rnd \in Randoms : GetRecordsExpired(s, rnd)

ReinvokeSpec == ReinvokeInit /\ [][ReinvokeNext]_vars

\* ================================================================== claims

\* The records of shard s, in order: sequence numbers 1..size[s].
AllRecords(s) == [i \in 1..size[s] |-> i]
\* The k records that follow position pos.
RecordsFrom(pos, k) == [i \in 1..k |-> pos + i]
IsPrefix(a, b) == Len(a) <= Len(b) /\ a = SubSeq(b, 1, Len(a))
Returned(s) == batches[s] > 0

\* C1 (as stated): a batch result omits next if and only if its response reports
\* zero MillisBehindLatest and carries no NextShardIterator.
C1_ExhaustedIffZeroLagAndNoIterator ==
    \A s \in Shards :
        Returned(s) =>
            (~result[s].next <=>
                (response[s].MillisBehindLatest = 0 /\ response[s].NextShardIterator = Null))

\* C1 (amended): a batch result omits next if and only if its response reports zero
\* MillisBehindLatest or carries no NextShardIterator; only a non-zero lag together
\* with a next iterator yields a batch result that carries next.
C1_ExhaustedIffZeroLagOrNoIterator ==
    \A s \in Shards :
        Returned(s) =>
            (~result[s].next <=>
                (response[s].MillisBehindLatest = 0 \/ response[s].NextShardIterator = Null))

\* C1 witness: a response with zero lag and a next iterator gave a result without next.
C1_Witness ==
    \E s \in Shards :
        /\ Returned(s)
        /\ response[s].MillisBehindLatest = 0
        /\ response[s].NextShardIterator # Null
        /\ ~result[s].next

\* C2: a cursor started from an empty checkpoint yields the shard's records in
\* order, none twice and none skipped, and when a batch result has no next every
\* record of the shard has been yielded.
C2_AllRecordsInOrder ==
    \A s \in Shards :
        cp0[s] = EmptyCheckpoint =>
            /\ IsPrefix(yielded[s], AllRecords(s))
            /\ (Returned(s) /\ ~result[s].next) => yielded[s] = AllRecords(s)

\* C2 witness: a shard of MaxRecords records read to its end in three batches or
\* more by one cursor, from an empty checkpoint.
C2_Witness ==
    \E s \in Shards :
        /\ cp0[s] = EmptyCheckpoint
        /\ size[s] = MaxRecords
        /\ resumed[s] = NotResumed
        /\ batches[s] >= 3
        /\ ~result[s].next
        /\ yielded[s] = AllRecords(s)

\* C3 (as stated): a fresh cursor started from a returned checkpoint yields exactly
\* the records that follow the position the checkpoint was returned at, whether or
\* not the checkpoint's shard iterator has expired.
C3_ResumptionYieldsTheRest ==
    \A s \in Shards :
        resumed[s] # NotResumed =>
            SubSeq(yielded[s], resumed[s].len + 1, Len(yielded[s]))
                = RecordsFrom(resumed[s].at, Len(yielded[s]) - resumed[s].len)

\* C4 (as stated): an advance that caught ExpiredIteratorException and then
\* completed returns the batch at the position it would have read without the expiry.
C4_ExpiryTransparent ==
    \A s \in Shards :
        (adv[s].expiries > 0 /\ adv[s].at # Unknown) => adv[s].at = adv[s].from


\* The retries left to the withRetry call that handles the next failure of s:
\* the retryable failures the advance can still absorb before it fails.
RetryBudget(s) == Top(frames[s]).r.retries

\* C5: catching ExpiredIteratorException consumes no retry and performs no wait:
\* the step that catches it leaves the advance with at least the retry budget it
\* had, and with the request for a new shard iterator sent, not in a backoff wait.
C5_ExpiryCostsNoRetryAndNoWait ==
    [][\A s \in Shards :
          adv'[s].expiries = adv[s].expiries + 1 =>
              /\ frames'[s] # <<>>
              /\ RetryBudget(s)' >= RetryBudget(s)
              /\ Top(frames'[s]).op = "getShardIterator"
              /\ Top(frames'[s]).st = "inflight"
              /\ \A i \in 1..Len(frames'[s]) : frames'[s][i].st # "waiting"]_vars

\* C5 witness: an attempt that had used up retries caught the exception, and the
\* request for a new shard iterator runs with the full budget.
C5_Witness ==
    \E s \in Shards :
        /\ Len(frames[s]) = 2
        /\ frames[s][1].st = "recovering"
        /\ frames[s][1].r.retries < MAX_RETRIES
        /\ frames[s][2].op = "getShardIterator"
        /\ frames[s][2].r.retries = MAX_RETRIES

\* C6: an operation that fails with a retryable error on every invocation is
\* invoked exactly 11 times, and withRetry then rejects with an OutOfRetriesError
\* whose lastError is the 11th error and whose prevErrors are the 10 earlier ones,
\* in attempt order.
C6_ExhaustedAfterElevenAttempts ==
    /\ rtCalls <= 11
    /\ (rtState = "rejected" /\ \A i \in 1..Len(rtThrown) : Retryable(rtThrown[i])) =>
          /\ rtCalls = 11
          /\ Len(rtThrown) = 11
          /\ rtError.name = "OutOfRetriesError"
          /\ rtError.lastError = rtThrown[11]
          /\ rtError.prevErrors = SubSeq(rtThrown, 1, 10)

\* C6 witness: withRetry ran out of retries on errors of two kinds.
C6_Witness ==
    /\ rtState = "rejected"
    /\ rtError.name = "OutOfRetriesError"
    /\ rtCalls = 11
    /\ rtThrown[1] # rtThrown[11]

\* C7: when attempt k fails with an error that is not retryable, withRetry rejects
\* at once with a NonRetryableError wrapping that error: the operation has been
\* invoked k times and no more, k - 1 waits have been performed, and prevErrors are
\* the errors of the k - 1 earlier attempts in order.
C7_NonRetryableFailsAtOnce ==
    \A k \in 1..Len(rtThrown) :
        ~Retryable(rtThrown[k]) =>
            /\ k = Len(rtThrown)
            /\ rtState = "rejected"
            /\ rtCalls = k
            /\ Len(rtWaits) = k - 1
            /\ rtError.name = "NonRetryableError"
            /\ rtError.lastError = rtThrown[k]
            /\ rtError.prevErrors = SubSeq(rtThrown, 1, k - 1)

\* C7 witness: the 11th attempt failed with a non-retryable error.
C7_Witness ==
    /\ rtState = "rejected"
    /\ rtError.name = "NonRetryableError"
    /\ Len(rtThrown) = 11
    /\ Len(rtError.prevErrors) = 10

\* C8 (as stated): the wait before the Nth retry lies in
\* [10 * 2^(N-1), 2 * 10 * 2^(N-1)).
C8_WaitWithinBackoffBounds ==
    \A n \in 1..Len(rtWaits) :
        /\ rtWaits[n] >= 10 * 2^(n - 1)
        /\ rtWaits[n] < 2 * 10 * 2^(n - 1)

\* C9: the shared batch size is always an integer in [1, 10000], and is 2500 until
\* the first fetch attempt has been handled.
C9_BatchSizeClamped ==
    /\ batchSize \in 1..10000
    /\ lastUpdate = NoUpdate => batchSize = 2500

\* C9 witness: every shard has returned a batch, and the last successful fetch
\* would have grown the batch size past 10000.
C9_Witness ==
    /\ \A s \in Shards : Returned(s)
    /\ lastUpdate.kind = "grow"
    /\ 3 * lastUpdate.used > 2 * 10000
    /\ batchSize = 10000

\* C10: a successful getRecords issued with Limit = u sets the batch size to
\* min(10000, max(c, round(1.5 * u))), c being the value when the response is
\* handled and u the value captured when the attempt started.
C10_GrowRule ==
    lastUpdate.kind = "grow" =>
        \E rounded \in {(3 * lastUpdate.used) \div 2, (3 * lastUpdate.used) \div 2 + 1} :
            /\ 2 * rounded <= 3 * lastUpdate.used + 1
            /\ 3 * lastUpdate.used + 1 < 2 * rounded + 2
            /\ lastUpdate.after = Min(10000, Max(lastUpdate.before, rounded))

\* C10 witness: a fetch succeeded after another cursor had changed the batch size
\* it was issued with, and growing from the current value would have given more.
C10_Witness ==
    /\ lastUpdate.kind = "grow"
    /\ lastUpdate.used < lastUpdate.before
    /\ lastUpdate.after < Min(10000, (3 * lastUpdate.before + 1) \div 2)


\* C11: a getRecords issued with Limit = u that fails with
\* ProvisionedThroughputExceededException sets the batch size to
\* max(1, min(c, round(0.5 * u))), c being the value when the failure is handled;
\* u = 1 leaves the size at 1.
C11_ShrinkRule ==
    lastUpdate.kind = "shrink" =>
        /\ \E rounded \in {lastUpdate.used \div 2, lastUpdate.used \div 2 + 1} :
              /\ 2 * rounded <= lastUpdate.used + 1
              /\ lastUpdate.used + 1 < 2 * rounded + 2
              /\ lastUpdate.after = Max(1, Min(lastUpdate.before, rounded))
        /\ lastUpdate.used = 1 => lastUpdate.after = 1

\* C11 witness: a fetch was throttled after another cursor had changed the batch
\* size it was issued with, and halving the current value would have given more.
C11_Witness ==
    /\ lastUpdate.kind = "shrink"
    /\ lastUpdate.used < lastUpdate.before
    /\ lastUpdate.after < (lastUpdate.before + 1) \div 2


\* C12: a getRecords attempt that fails with ProvisionedThroughputExceededException
\* (marked retryable, as the SDK marks it) shrinks the batch size and rethrows to
\* withRetry: while retries are left the same withRetry call goes into its backoff
\* wait with one retry less and then invokes getRecords again; the advance fails,
\* and the failure reaches the caller, only when no retry was left.
C12_ThrottleGoesThroughRetry ==
    [][\A s \in Shards :
          /\ \A rnd \in Randoms :
                GetRecordsThrottled(s, TRUE, rnd) =>
                    /\ lastUpdate'.kind = "shrink"
                    /\ lastUpdate'.after = batchSize'
                    /\ IF Top(frames[s]).r.retries > 0
                          THEN /\ pc'[s] = "busy"
                               /\ Len(frames'[s]) = Len(frames[s])
                               /\ Top(frames'[s]).op = "getRecords"
                               /\ Top(frames'[s]).st = "waiting"
                               /\ Top(frames'[s]).r.retries = Top(frames[s]).r.retries - 1
                          ELSE /\ pc'[s] = "failed"
                               /\ failure'[s] # NoError
          /\ (WaitElapses(s) /\ Top(frames[s]).op = "getRecords") =>
                /\ Top(frames'[s]).op = "getRecords"
                /\ Top(frames'[s]).st = "inflight"
                /\ Top(frames'[s]).shardIterator = Top(frames[s]).shardIterator
                /\ Top(frames'[s]).usedBatchSize = batchSize]_vars

\* C12 witness: an advance failed after eleven throttled attempts of one
\* getOneBatchOfRecords call.
C12_Witness ==
    \E s \in Shards :
        /\ pc[s] = "failed"
        /\ failure[s].name = "OutOfRetriesError"
        /\ failure[s].lastError.code = "ProvisionedThroughputExceededException"
        /\ Len(failure[s].prevErrors) = MAX_RETRIES
        /\ \A i \in 1..MAX_RETRIES :
              failure[s].prevErrors[i].code = "ProvisionedThroughputExceededException"


\* C13: the advance resolves its shard iterator from the checkpoint in strict
\* priority order, taking exactly one branch: (a) the checkpoint's shardIterator as
\* is, with no request; else (b) AFTER_SEQUENCE_NUMBER for lastReadSequenceNumber;
\* else (c) AT_TIMESTAMP for timestamp; else (d) TRIM_HORIZON.
C13_IteratorPriority ==
    [][\A s \in Shards :
          CallNext(s) =>
              /\ Len(frames'[s]) = 1
              /\ issued' = issued
              /\ IF cp[s].shardIterator # Null
                    THEN /\ frames'[s][1].op = "getRecords"
                         /\ frames'[s][1].shardIterator = cp[s].shardIterator
                    ELSE /\ frames'[s][1].op = "getShardIterator"
                         /\ frames'[s][1].request =
                               IF cp[s].lastReadSequenceNumber # Null
                                   THEN [ShardIteratorType |-> "AFTER_SEQUENCE_NUMBER",
                                         StartingSequenceNumber |->
                                             cp[s].lastReadSequenceNumber,
                                         Timestamp |-> Null]
                               ELSE IF cp[s].timestamp # Null
                                   THEN [ShardIteratorType |-> "AT_TIMESTAMP",
                                         StartingSequenceNumber |-> Null,
                                         Timestamp |-> cp[s].timestamp]
                               ELSE [ShardIteratorType |-> "TRIM_HORIZON",
                                     StartingSequenceNumber |-> Null,
                                     Timestamp |-> Null]]_vars

\* C13 witness: an advance from a checkpoint with a last read sequence number and a
\* timestamp, and no shard iterator, requests AFTER_SEQUENCE_NUMBER.
C13_Witness ==
    \E s \in Shards :
        /\ pc[s] = "busy"
        /\ cp[s].shardIterator = Null
        /\ cp[s].lastReadSequenceNumber # Null
        /\ cp[s].timestamp # Null
        /\ Len(frames[s]) = 1
        /\ frames[s][1].op = "getShardIterator"
        /\ frames[s][1].request.ShardIteratorType = "AFTER_SEQUENCE_NUMBER"


\* C14: the checkpoint returned by an advance has the NextShardIterator of the
\* fetch response as its shardIterator, and as its lastReadSequenceNumber the
\* sequence number of the last record of the batch, or that of the checkpoint the
\* advance started from when the batch is empty (null when that one had none).
C14_CheckpointDerivation ==
    [][\A s \in Shards :
          batches'[s] = batches[s] + 1 =>
              /\ result'[s].records = response'[s].Records
              /\ result'[s].checkpoint.shardIterator = response'[s].NextShardIterator
              /\ result'[s].checkpoint.lastReadSequenceNumber =
                    IF Len(response'[s].Records) > 0
                        THEN response'[s].Records[Len(response'[s].Records)]
                        ELSE cp[s].lastReadSequenceNumber]_vars

\* C14 witness: an empty batch whose checkpoint carries a next shard iterator and
\* the sequence number of a record read by an earlier advance.
C14_Witness ==
    \E s \in Shards :
        /\ batches[s] >= 2
        /\ Len(result[s].records) = 0
        /\ result[s].checkpoint.shardIterator # Null
        /\ result[s].checkpoint.lastReadSequenceNumber # Null
        /\ result[s].checkpoint.lastReadSequenceNumber = Len(yielded[s])


C16_NextStartsFromItsCheckpoint ==
    [][\A s \in Shards :
          /\ (pc[s] = "ready" /\ frames[s] = <<>>) => ENABLED CallNext(s)
          /\ CallNext(s) =>
                /\ frames'[s][1].lastReadSequenceNumber =
                      result[s].checkpoint.lastReadSequenceNumber
                /\ IF result[s].checkpoint.shardIterator # Null
                      THEN /\ frames'[s][1].op = "getRecords"
                           /\ frames'[s][1].shardIterator = result[s].checkpoint.shardIterator
                      ELSE /\ frames'[s][1].op = "getShardIterator"
                           /\ frames'[s][1].request.StartingSequenceNumber =
                                 result[s].checkpoint.lastReadSequenceNumber
                /\ \A t \in Shards \ {s} :
                      /\ pc'[t] = pc[t]
                      /\ cp'[t] = cp[t]
                      /\ frames'[t] = frames[t]
                      /\ result'[t] = result[t]]_vars

\* C16 witness: the second advance of one shard is under way, with the shard
\* iterator of its first batch result, while the first advance of another shard has
\* not returned.
C16_Witness ==
    \E s \in Shards, t \in Shards :
        /\ s # t
        /\ batches[s] = 1
        /\ pc[s] = "busy"
        /\ result[s].checkpoint.shardIterator # Null
        /\ Top(frames[s]).op = "getRecords"
        /\ Top(frames[s]).shardIterator = result[s].checkpoint.shardIterator
        /\ batches[t] = 0
        /\ pc[t] = "busy"


\* The remote calls made so far for shard s have changed the service's state.
RemoteCallAnswered(s) ==
    \/ issued'[s] # issued[s]
    \/ expired'[s] # expired[s]
    \/ emptyLeft'[s] # emptyLeft[s]
    \/ batches'[s] # batches[s]

\* C17: readFromShard returns a cursor that has next, whatever the shard holds, and
\* issues no remote call; remote calls are outstanding or answered only inside an
\* advance the caller invoked; an advance ends with its one successful getRecords
\* response; and nothing is fetched after that until the caller invokes next.
C17_LazyPullBased ==
    /\ [](\A s \in Shards :
            /\ batches[s] = 0 => result[s].next
            /\ (batches[s] = 0 /\ pc[s] # "busy" /\ failure[s] = NoError) =>
                  (issued[s] = 0 /\ expired[s] = {})
            /\ pc[s] # "busy" => frames[s] = <<>>
            /\ pc[s] = "busy" => (frames[s] # <<>> /\ adv[s].at = Unknown))
    /\ [][\A s \in Shards :
            /\ RemoteCallAnswered(s) => pc[s] = "busy"
            /\ batches'[s] # batches[s] =>
                  /\ batches'[s] = batches[s] + 1
                  /\ pc'[s] = (IF result'[s].next THEN "ready" ELSE "exhausted")
                  /\ frames'[s] = <<>>
            /\ (pc[s] # "busy" /\ pc'[s] = "busy") =>
                  (pc[s] = "ready" /\ CallNext(s))]_vars

\* C17 witness: an advance has returned a batch result with next while records
\* remain in the shard, and no call is outstanding.
C17_Witness ==
    \E s \in Shards :
        /\ batches[s] = 1
        /\ pc[s] = "ready"
        /\ result[s].next
        /\ frames[s] = <<>>
        /\ Len(yielded[s]) < size[s]
        /\ cp0[s] = EmptyCheckpoint


\* C18: when an advance of one shard's cursor fails only that shard's iteration is
\* aborted: the cursor, checkpoint and pending advance of every other shard are
\* unchanged by the failure, and every other cursor is still driven to exhaustion
\* when the service fails none of its calls.
C18_FailureIsolation ==
    /\ [][\A s \in Shards :
            (pc[s] # "failed" /\ pc'[s] = "failed") =>
                /\ failure'[s] # NoError
                /\ frames'[s] = <<>>
                /\ cp'[s] = cp[s]
                /\ \A t \in Shards \ {s} :
                      /\ pc'[t] = pc[t]
                      /\ cp'[t] = cp[t]
                      /\ frames'[t] = frames[t]
                      /\ result'[t] = result[t]
                      /\ failure'[t] = failure[t]]_vars
    /\ \A s \in Shards, t \in Shards :
          (s # t /\ pc[s] = "failed" /\ pc[t] \in {"ready", "busy"} /\ faultsLeft = 0)
              ~> (pc[t] = "exhausted")

\* C18 witness: the iteration of one shard has failed and the cursor of the other
\* has been driven to exhaustion, with all its records yielded.
C18_Witness ==
    \E s \in Shards, t \in Shards :
        /\ s # t
        /\ pc[s] = "failed"
        /\ pc[t] = "exhausted"
        /\ size[t] > 0
        /\ yielded[t] = AllRecords(t)


\* The dump run is over: dumpStream has returned or thrown, and no dumpShard is
\* still reading.
DumpOver ==
    /\ dump.state \in {"done", "failed"}
    /\ \A s \in Shards : pc[s] \in {"exhausted", "failed"}

\* C19 (as stated): a dump run with --checkpoint in which one shard's iteration
\* failed while other shards completed has reported the error and has persisted the
\* final checkpoints of the shards that completed.
C19_CompletedShardsPersisted ==
    (DumpOver /\ dump.state = "failed" /\ dump.checkpoint) =>
        /\ dump.error # NoError
        /\ \A s \in Shards :
              pc[s] = "exhausted" =>
                  getCheckpoints(checkpointFile, StreamName, s) = result[s].checkpoint

\* C19 (amended): a dump run in which a shard's iteration failed reports that
\* error and persists no checkpoint, not even of the shards that completed: a
\* later run starts every shard from the checkpoint this run started it from.
C19_FailedRunPersistsNothing ==
    dump.state = "failed" =>
        /\ \E s \in Shards : pc[s] = "failed" /\ dump.error = failure[s]
        /\ dump.error # NoError
        /\ \A s \in Shards :
              getCheckpoints(checkpointFile, StreamName, s)
                  = getCheckpoints(dump.before, StreamName, s)
        /\ dump.checkpoint =>
              \A s \in Shards : getCheckpoints(checkpointFile, StreamName, s) = cp0[s]

\* C19 witness: a run with --checkpoint is over, one shard failed, the other
\* completed with a record read, and the file holds no checkpoint for it.
C19_Witness ==
    \E s \in Shards, t \in Shards :
        /\ DumpOver
        /\ dump.state = "failed"
        /\ dump.checkpoint
        /\ pc[s] = "failed"
        /\ pc[t] = "exhausted"
        /\ result[t].checkpoint.lastReadSequenceNumber = 1
        /\ getCheckpoints(checkpointFile, StreamName, t) = EmptyCheckpoint


\* The lines the run has added to the checkpoint file: all of its lines with
\* --trim-checkpoints, those after the lines it held before otherwise.
AddedLines ==
    IF dump.trimCheckpoints
        THEN checkpointFile
        ELSE SubSeq(checkpointFile, Len(dump.before) + 1, Len(checkpointFile))

\* C20: the checkpoint file is written only after every requested shard's
\* iteration has completed successfully: while the run is going on, and if any
\* shard fails, the file is as it was; on success with --checkpoint exactly one
\* line per requested shard, with that shard's final checkpoint, is appended to
\* what the file held, or replaces it with --trim-checkpoints.
C20_WrittenOnlyOnSuccess ==
    /\ (\E s \in Shards : pc[s] = "failed") => checkpointFile = dump.before
    /\ dump.state \in {"running", "failed"} => checkpointFile = dump.before
    /\ dump.state = "done" =>
          /\ \A s \in Shards : pc[s] = "exhausted"
          /\ ~dump.checkpoint => checkpointFile = dump.before
          /\ dump.checkpoint =>
                /\ ~dump.trimCheckpoints =>
                      /\ Len(checkpointFile) >= Len(dump.before)
                      /\ SubSeq(checkpointFile, 1, Len(dump.before)) = dump.before
                /\ Len(AddedLines) = Cardinality(Shards)
                /\ \A s \in Shards :
                      \E i \in 1..Len(AddedLines) :
                          /\ AddedLines[i].streamName = StreamName
                          /\ AddedLines[i].shardId = s
                          /\ AddedLines[i].shardIterator = cp[s].shardIterator
                          /\ AddedLines[i].lastReadSequenceNumber =
                                cp[s].lastReadSequenceNumber

\* C20 witness: a run with --trim-checkpoints has completed and its two lines have
\* replaced the line the file held.
C20_Witness ==
    /\ dump.state = "done"
    /\ dump.trimCheckpoints
    /\ dump.before # <<>>
    /\ Len(checkpointFile) = Cardinality(Shards)
    /\ \A i \in 1..Len(checkpointFile) : checkpointFile[i].time = "now"

\* C27: in every run of withRetry no wait precedes the first invocation of the
\* operation, exactly one wait precedes each retry, and none follows the final
\* failure or a success: after j invocations j - 1 waits have been performed (j
\* while the wait before invocation j + 1 is running).
C27_OneWaitPerRetry ==
    /\ rtCalls >= 1
    /\ rtCalls = 1 /\ rtState = "pending" => rtWaits = <<>>
    /\ Len(rtWaits) = IF rtState = "waiting" THEN rtCalls ELSE rtCalls - 1
    /\ Len(rtThrown) = IF rtState \in {"pending", "resolved"} THEN rtCalls - 1 ELSE rtCalls

\* C27 witness: the operation succeeded at its fourth invocation, after three waits.
C27_Witness ==
    /\ rtState = "resolved"
    /\ rtCalls = 4
    /\ Len(rtWaits) = 3

\* C26: the decision of withRetry is taken from the error's retryable property
\* alone: an error whose retryable is truthy is retried while retries are left (and
\* ends the run with OutOfRetriesError when none is), whatever its code; an error
\* whose retryable is false or missing, a throttling error included, ends the run
\* at once with a NonRetryableError wrapping it, with no retry and no wait.
C26_DecisionByRetryableFlagOnly ==
    [][\A error \in OpErrors, rnd \in Randoms :
          InvokeFails(error, rnd) =>
              IF "retryable" \in DOMAIN error /\ error.retryable
                  THEN IF rt.retries # 0
                           THEN /\ rtState' = "waiting"
                                /\ rt'.retries = rt.retries - 1
                                /\ rtError' = NoError
                           ELSE /\ rtState' = "rejected"
                                /\ rtError'.name = "OutOfRetriesError"
                  ELSE /\ rtState' = "rejected"
                       /\ rtError'.name = "NonRetryableError"
                       /\ rtError'.lastError = error
                       /\ rtCalls' = rtCalls
                       /\ rtWaits' = rtWaits]_vars

\* C26 witness: errors of two codes were retried, and a throttling error that is
\* not marked retryable then ended the run.
C26_Witness ==
    /\ rtState = "rejected"
    /\ rtError.name = "NonRetryableError"
    /\ rtError.lastError = ThroughputExceeded(FALSE)
    /\ \E i, j \in 1..Len(rtError.prevErrors) :
          /\ rtError.prevErrors[i] = InternalFailure
          /\ rtError.prevErrors[j] = ServiceUnavailable

\* The index of the first occurrence of name among the names of errors.
FirstAttemptNamed(errors, name) ==
    CHOOSE i \in 1..Len(errors) :
        /\ ErrorName(errors[i]) = name
        /\ \A j \in 1..(i - 1) : ErrorName(errors[j]) # name

\* C28: the message of an OutOfRetriesError states the number of errors of all
\* attempts, the last included, and lists the name of every one of them, each
\* name once, in the order in which the names first occurred.
C28_MessageListsDistinctNames ==
    (rtState = "rejected" /\ rtError.name = "OutOfRetriesError") =>
        LET msg == rtError.message IN
            /\ msg.count = Len(rtThrown)
            /\ \A i \in 1..Len(rtThrown) :
                  \E k \in 1..Len(msg.names) : msg.names[k] = ErrorName(rtThrown[i])
            /\ \A k \in 1..Len(msg.names) :
                  \E i \in 1..Len(rtThrown) : msg.names[k] = ErrorName(rtThrown[i])
            /\ \A j, k \in 1..Len(msg.names) :
                  j < k => /\ msg.names[j] # msg.names[k]
                           /\ FirstAttemptNamed(rtThrown, msg.names[j])
                                  < FirstAttemptNamed(rtThrown, msg.names[k])

\* C28 witness: ten attempts failed with one error and the last with another, whose
\* name the message lists second.
C28_Witness ==
    /\ rtState = "rejected"
    /\ rtError.name = "OutOfRetriesError"
    /\ \A i \in 1..10 : rtThrown[i] = ServiceUnavailable
    /\ rtThrown[11] = InternalFailure
    /\ rtError.message = [count |-> 11, names |-> <<"ServiceUnavailable", "InternalFailure">>]

\* C30: every getRecords attempt, the first of a getOneBatchOfRecords call and
\* every retry alike, is issued with Limit equal to the shared batch size at the
\* moment the attempt starts: the step that issues the call reads the batch size
\* and does not change it.
C30_LimitIsBatchSizeAtAttemptStart ==
    [][\A s \in Shards :
          ( /\ frames'[s] # frames[s]
            /\ frames'[s] # <<>>
            /\ Top(frames'[s]).op = "getRecords"
            /\ Top(frames'[s]).st = "inflight" ) =>
                /\ Top(frames'[s]).usedBatchSize = batchSize
                /\ batchSize' = batchSize]_vars

\* C30 witness: the retry after a throttled first attempt is outstanding with a
\* Limit above the value its own shrink left, because another shard's fetch grew
\* the batch size during the backoff wait.
C30_Witness ==
    \E s \in Shards :
        /\ frames[s] # <<>>
        /\ Top(frames[s]).op = "getRecords"
        /\ Top(frames[s]).st = "inflight"
        /\ Top(frames[s]).r.retries = MAX_RETRIES - 1
        /\ Top(frames[s]).r.prevErrors[1].code = "ProvisionedThroughputExceededException"
        /\ Top(frames[s]).usedBatchSize = batchSize
        /\ Top(frames[s]).usedBatchSize > RoundDecrease(INITIAL_BATCH_SIZE)

\* C21: a failed advance rejects with one of the two reports of withRetry, exactly
\* as the outermost withRetry call of the advance threw it: an OutOfRetriesError
\* over eleven retryable errors, or a NonRetryableError whose cause is an error of
\* the service that is not retryable or, after an expiry recovery, the report of
\* the withRetry call nested in the failed attempt. No withRetry call of the
\* advance is left pending, and the advance has returned no batch result: its
\* fetch never completed and the cursor's checkpoint is still that of the batch
\* result before.
C21_FailureIsAStructuredReport ==
    \A s \in Shards :
        pc[s] = "failed" =>
            /\ failure[s] # NoError
            /\ ErrorName(failure[s]) \in {"OutOfRetriesError", "NonRetryableError"}
            /\ ErrorName(failure[s]) = "OutOfRetriesError" =>
                  /\ Len(failure[s].prevErrors) = MAX_RETRIES
                  /\ failure[s].lastError.retryable
                  /\ \A i \in 1..MAX_RETRIES : failure[s].prevErrors[i].retryable
            /\ ErrorName(failure[s]) = "NonRetryableError" =>
                  \/ /\ "code" \in DOMAIN failure[s].lastError
                     /\ ~failure[s].lastError.retryable
                  \/ /\ ErrorName(failure[s].lastError)
                            \in {"OutOfRetriesError", "NonRetryableError"}
                     /\ adv[s].expiries > 0
            /\ frames[s] = <<>>
            /\ adv[s].at = Unknown
            /\ cp[s] = result[s].checkpoint

\* C21 witness: an advance failed in the recovery from an expired shard iterator,
\* after a batch had been returned: the request for a new shard iterator ran out of
\* retries, and the caller got that report wrapped by the fetch's withRetry call.
C21_Witness ==
    \E s \in Shards :
        /\ pc[s] = "failed"
        /\ batches[s] > 0
        /\ ErrorName(failure[s]) = "NonRetryableError"
        /\ ErrorName(failure[s].lastError) = "OutOfRetriesError"

\* The report a failed advance rejects with, unwrapped down to the report of the
\* withRetry call that met the error of the service.
RECURSIVE InnermostReport(_)
InnermostReport(report) ==
    IF "name" \in DOMAIN report.lastError
        THEN InnermostReport(report.lastError)
        ELSE report

\* C29: every getShardIterator request (TRIM_HORIZON, AFTER_SEQUENCE_NUMBER,
\* AT_TIMESTAMP), the one sent to recover from an expired shard iterator included,
\* is a withRetry call of its own with the full budget: a failure with a retryable
\* error puts the call in a backoff wait, after which the same request is sent
\* again, up to 10 times; the 11th such failure, or any failure with an error that
\* is not retryable, fails the advance, with an OutOfRetriesError over the eleven
\* errors or a NonRetryableError over that error.
C29_ShardIteratorRequestsAreRetried ==
    /\ [](\A s \in Shards : \A i \in 1..Len(frames[s]) :
            frames[s][i].op = "getShardIterator" =>
                /\ i = Len(frames[s])
                /\ frames[s][i].request.ShardIteratorType
                       \in {"TRIM_HORIZON", "AFTER_SEQUENCE_NUMBER", "AT_TIMESTAMP"}
                /\ frames[s][i].r.retries \in 0..MAX_RETRIES
                /\ Len(frames[s][i].r.prevErrors) = MAX_RETRIES - frames[s][i].r.retries)
    /\ [][\A s \in Shards, rnd \in Randoms :
            /\ GetShardIteratorFails(s, InternalFailure, rnd) =>
                  IF Top(frames[s]).r.retries > 0
                      THEN /\ pc'[s] = "busy"
                           /\ Len(frames'[s]) = Len(frames[s])
                           /\ Top(frames'[s]).st = "waiting"
                           /\ Top(frames'[s]).wait # NoWait
                           /\ Top(frames'[s]).request = Top(frames[s]).request
                           /\ Top(frames'[s]).r.retries = Top(frames[s]).r.retries - 1
                      ELSE /\ pc'[s] = "failed"
                           /\ InnermostReport(failure'[s]) =
                                  OutOfRetriesError(InternalFailure, Top(frames[s]).r.prevErrors)
                           /\ Len(Top(frames[s]).r.prevErrors) = MAX_RETRIES
            /\ GetShardIteratorFails(s, ResourceNotFound, rnd) =>
                  /\ pc'[s] = "failed"
                  /\ ErrorName(failure'[s]) = "NonRetryableError"
                  /\ InnermostReport(failure'[s]) =
                         NonRetryableError(ResourceNotFound, Top(frames[s]).r.prevErrors)
            /\ (WaitElapses(s) /\ Top(frames[s]).op = "getShardIterator") =>
                  /\ Top(frames'[s]).st = "inflight"
                  /\ Top(frames'[s]).request = Top(frames[s]).request
                  /\ Top(frames'[s]).r = Top(frames[s]).r]_vars

\* C29 witness: the request sent to recover from an expired shard iterator, after
\* a batch with a record was returned, is in flight for the 11th time.
C29_Witness ==
    \E s \in Shards :
        /\ Len(frames[s]) = 2
        /\ frames[s][1].st = "recovering"
        /\ frames[s][2].op = "getShardIterator"
        /\ frames[s][2].request.ShardIteratorType = "AFTER_SEQUENCE_NUMBER"
        /\ frames[s][2].st = "inflight"
        /\ frames[s][2].r.retries = 0
        /\ batches[s] > 0

\* C25: an attempt that caught ExpiredIteratorException requests the new shard
\* iterator from the last read sequence number its getOneBatchOfRecords call was
\* given and from nothing else (AFTER_SEQUENCE_NUMBER for that number, TRIM_HORIZON
\* when the call was given none), and the fetch is issued again with the shard
\* iterator that request returned, standing right after that sequence number. No
\* getRecords call of the advance is sent with a shard iterator that was reported
\* expired.
C25_RecoveryFromLastReadSequenceNumber ==
    \A s \in Shards :
        /\ \A i \in 1..Len(frames[s]) :
              /\ i < Len(frames[s]) => frames[s][i].st = "recovering"
              /\ (frames[s][i].op = "getRecords" /\ frames[s][i].st # "recovering") =>
                    frames[s][i].shardIterator \notin expired[s]
              /\ frames[s][i].st = "recovering" =>
                    /\ frames[s][i].op = "getRecords"
                    /\ frames[s][i].shardIterator \in expired[s]
                    /\ i < Len(frames[s])
        /\ \A i \in 1..(Len(frames[s]) - 1) :
              LET old == frames[s][i]
                  new == frames[s][i + 1] IN
                  /\ new.lastReadSequenceNumber = old.lastReadSequenceNumber
                  /\ new.op = "getShardIterator" =>
                        new.request =
                            IF old.lastReadSequenceNumber # Null
                                THEN [ShardIteratorType |-> "AFTER_SEQUENCE_NUMBER",
                                      StartingSequenceNumber |-> old.lastReadSequenceNumber,
                                      Timestamp |-> Null]
                                ELSE [ShardIteratorType |-> "TRIM_HORIZON",
                                      StartingSequenceNumber |-> Null,
                                      Timestamp |-> Null]
                  /\ new.op = "getRecords" =>
                        /\ new.shardIterator # old.shardIterator
                        /\ ChainOf(new.shardIterator) > ChainOf(old.shardIterator)
                        /\ PosOf(new.shardIterator) = old.lastReadSequenceNumber

\* C25 witness: the shard iterator of the second advance expired, and the fetch is
\* in flight again with the shard iterator requested after sequence number 1.
C25_Witness ==
    \E s \in Shards :
        /\ batches[s] = 1
        /\ Len(frames[s]) = 2
        /\ frames[s][1].st = "recovering"
        /\ frames[s][1].lastReadSequenceNumber = 1
        /\ frames[s][2].op = "getRecords"
        /\ frames[s][2].st = "inflight"
        /\ PosOf(frames[s][2].shardIterator) = 1

\* dumpStream resolved no shard ID: no --shard, or --all against a stream that
\* lists none.
NoShardIds == ~dump.shardIds.defined \/ Len(dump.shardIds.ids) = 0

\* C22: when no shard ID is resolved (no --shard, or --all lists none), the dump
\* command fails with a CallerError once dumpStream has looked at the shard IDs:
\* no shard iterator was requested and no record fetched, the checkpoint file was
\* neither read nor written, and the failure is final (nothing is attempted again).
C22_NoShardIdsIsACallerError ==
    (NoShardIds /\ dump.state # "start") =>
        /\ dump.state = "failed"
        /\ dump.error = CallerError("No shard IDs specified")
        /\ ~dump.loaded
        /\ checkpointFile = dump.before
        /\ \A s \in Shards :
              /\ pc[s] = "unread"
              /\ issued[s] = 0
              /\ frames[s] = <<>>
              /\ batches[s] = 0
              /\ yielded[s] = <<>>
        /\ ~ENABLED CommandNext

\* --all listed no shard of a stream whose checkpoint file has a line: the command
\* has failed.
C22_Witness ==
    /\ dump.state = "failed"
    /\ dump.shardIds.all
    /\ Len(dump.shardIds.ids) = 0
    /\ dump.checkpoint
    /\ checkpointFile # <<>>

\* The last batch result of shard s has records, and the last of them arrived
\* after the time given with --stop-after.
LastBatchEndsAfterStopAfter(s) ==
    /\ dump.stopAfter # NoStopAfter
    /\ batches[s] > 0
    /\ result[s].records # <<>>
    /\ ApproximateArrivalTimestamp(result[s].records[Len(result[s].records)])
          > dump.stopAfter

\* C24: with --stop-after T, the dump loop of a shard never invokes next again
\* after a non-empty batch whose last record arrived after T, and it leaves a
\* cursor that still has next only at such a batch (never at an empty one, never
\* at one that ends at or before T). The batch it stops at was written out whole,
\* the checkpoint it returns, which the command writes to the file, is that of
\* this batch, and the other shard is read on regardless.
C24_StopAfterEndsTheLoop ==
    /\ [](\A s \in Shards :
            (dump.state = "done" /\ pc[s] = "ready") =>
                /\ LastBatchEndsAfterStopAfter(s)
                /\ Len(yielded[s]) >= Len(result[s].records)
                /\ SubSeq(yielded[s], Len(yielded[s]) - Len(result[s].records) + 1,
                          Len(yielded[s])) = result[s].records
                /\ result[s].checkpoint.lastReadSequenceNumber
                      = result[s].records[Len(result[s].records)]
                /\ dump.checkpoint =>
                      \E i \in 1..Len(checkpointFile) :
                          /\ checkpointFile[i].streamName = StreamName
                          /\ checkpointFile[i].shardId = s
                          /\ checkpointFile[i].shardIterator
                                = result[s].checkpoint.shardIterator
                          /\ checkpointFile[i].lastReadSequenceNumber
                                = result[s].checkpoint.lastReadSequenceNumber)
    /\ [][\A s \in Shards : CallNext(s) => ~LastBatchEndsAfterStopAfter(s)]_vars

\* --stop-after 1: the loop of the first shard went on after an empty batch and
\* after the batch of record 1, and stopped at the batch of record 2 with a cursor
\* that has next; the other shard was read to its end.
C24_Witness ==
    /\ dump.state = "done"
    /\ dump.stopAfter = 1
    /\ pc["shardId-0"] = "ready"
    /\ batches["shardId-0"] = 3
    /\ yielded["shardId-0"] = <<1, 2>>
    /\ result["shardId-0"].records = <<2>>
    /\ pc["shardId-1"] = "exhausted"
    /\ yielded["shardId-1"] = <<1>>

\* The checkpoint file the command started with has no line for shard s of the
\* stream (or there was no file).
NoLineFor(s) ==
    \A i \in 1..Len(dump.before) :
        ~(dump.before[i].streamName = StreamName /\ dump.before[i].shardId = s)

\* C23: a command run with --checkpoint, after any runs that wrote the checkpoint
\* file, starts every shard from the checkpoint most recently written for it, with
\* the shardIterator and lastReadSequenceNumber that were written (a later line
\* overrides an earlier one of the same stream and shard); a shard with no line,
\* and every shard when there is no file, is given no checkpoint, and its first
\* request is for the trim horizon.
C23_LoadedIsLastWritten ==
    /\ [](\A s \in Shards :
            (dump.state \in {"running", "failed"} /\ dump.loaded) =>
                /\ cp0[s].shardIterator = dump.written[s].shardIterator
                /\ cp0[s].lastReadSequenceNumber = dump.written[s].lastReadSequenceNumber
                /\ cp0[s].timestamp = Null
                /\ NoLineFor(s) => cp0[s] = EmptyCheckpoint)
    /\ [][\A s \in Shards :
            (CallNext(s) /\ dump.loaded /\ batches[s] = 0 /\ NoLineFor(s)) =>
                /\ Len(frames'[s]) = 1
                /\ frames'[s][1].op = "getShardIterator"
                /\ frames'[s][1].request = requestShardIterator("TRIM_HORIZON", Null, Null)]_vars

\* A second run in append mode: the file has the line of an earlier run for the
\* first shard and, after it, the lines the first run wrote; the second run starts
\* the shard from the later line, which differs from the earlier one.
C23_Witness ==
    /\ dump.state = "running"
    /\ dump.loaded
    /\ ~dump.trimCheckpoints
    /\ Len(dump.before) = 3
    /\ dump.before[1].streamName = StreamName
    /\ dump.before[1].shardId = "shardId-0"
    /\ dump.before[2].shardId = "shardId-0"
    /\ dump.before[2].shardIterator # dump.before[1].shardIterator
    /\ cp0["shardId-0"].shardIterator = dump.before[2].shardIterator
    /\ cp0["shardId-0"].lastReadSequenceNumber = dump.before[2].lastReadSequenceNumber
    /\ batches["shardId-0"] > 0

\* C31: the batch size updates of shards read at once are not mutually exclusive.
\* A fetch that succeeds while the batch size is below the size the fetch was
\* issued with (another shard's throttled fetch has shrunk it since) overwrites
\* the shrunk value with round(1.5 * its own used size), capped at 10000: the
\* batch size ends above what the shrink produced.
C31_SuccessOverwritesShrink ==
    [][\A s \in Shards :
          ( /\ \E pg \in Pg : GetRecordsSucceeds(s, pg)
            /\ batchSize < Top(frames[s]).usedBatchSize ) =>
                /\ batchSize' = Min(MAX_BATCH_SIZE,
                                    RoundIncrease(Top(frames[s]).usedBatchSize))
                /\ batchSize' > batchSize]_vars

\* C31 witness: both shards issued their first fetch with the initial size; the
\* fetch of one was throttled and shrank the batch size to half of it, and is
\* still to be retried; then the fetch of the other succeeded and set the batch
\* size from the initial size. No batch but that one has been returned, and the
\* batch size is above the value the shrink produced.
C31_Witness ==
    \E s \in Shards, t \in Shards :
        /\ s # t
        /\ batches[s] = 1
        /\ batches[t] = 0
        /\ pc[t] = "busy"
        /\ Len(frames[t]) = 1
        /\ Top(frames[t]).op = "getRecords"
        /\ Top(frames[t]).r.prevErrors = <<ThroughputExceeded(TRUE)>>
        /\ lastUpdate = Update("grow", INITIAL_BATCH_SIZE,
                               batchSizeWasUnsuccessful(INITIAL_BATCH_SIZE, INITIAL_BATCH_SIZE),
                               batchSize)
        /\ batchSize = RoundIncrease(INITIAL_BATCH_SIZE)
        /\ batchSize > batchSizeWasUnsuccessful(INITIAL_BATCH_SIZE, INITIAL_BATCH_SIZE)

\* C32: however the advances of the shards interleave, handling a successful
\* fetch never lowers the batch size and handling a fetch that failed with
\* ProvisionedThroughputExceededException never raises it, whatever size the
\* attempt was issued with: in every state both hold for the attempts outstanding
\* and for any used size from the smallest to the largest.
C32_GrowNeverLowersShrinkNeverRaises ==
    /\ [][\A s \in Shards :
            /\ (\E pg \in Pg : GetRecordsSucceeds(s, pg)) => batchSize' >= batchSize
            /\ (\E flag \in BOOLEAN, rnd \in Randoms : GetRecordsThrottled(s, flag, rnd))
                  => batchSize' <= batchSize]_vars
    /\ [](\A usedBatchSize \in {MIN_BATCH_SIZE, RoundDecrease(INITIAL_BATCH_SIZE),
                                 INITIAL_BATCH_SIZE, batchSize, MAX_BATCH_SIZE} :
            /\ batchSizeWasSuccessful(batchSize, usedBatchSize) >= batchSize
            /\ batchSizeWasUnsuccessful(batchSize, usedBatchSize) <= batchSize)

\* C32 witness: a fetch issued with the size a shrink had left succeeded after the
\* other shard's success had raised the batch size beyond one and a half times
\* that size: the batch size stayed where it was.
C32_Witness ==
    /\ lastUpdate.kind = "grow"
    /\ lastUpdate.used = RoundDecrease(INITIAL_BATCH_SIZE)
    /\ RoundIncrease(lastUpdate.used) < lastUpdate.before
    /\ lastUpdate.after = lastUpdate.before
    /\ batchSize = lastUpdate.after

\* C33: the batch size changes only in the step that handles a successful fetch
\* or a fetch that failed with ProvisionedThroughputExceededException. Handling
\* an ExpiredIteratorException or any other getRecords failure, invoking next,
\* every answer and every failure of getShardIterator, and the end of every
\* backoff wait leave it as it was.
C33_BatchSizeChangesOnlyOnFetchOutcome ==
    [][/\ batchSize' # batchSize =>
             \E s \in Shards :
                 \/ \E pg \in Pg : GetRecordsSucceeds(s, pg)
                 \/ \E flag \in BOOLEAN, rnd \in Randoms : GetRecordsThrottled(s, flag, rnd)
       /\ \A s \in Shards :
             ( \/ CallNext(s)
               \/ GetShardIteratorSucceeds(s)
               \/ \E error \in OtherErrors, rnd \in Randoms : GetShardIteratorFails(s, error, rnd)
               \/ \E rnd \in Randoms : GetRecordsExpired(s, rnd)
               \/ \E error \in OtherErrors, rnd \in Randoms : GetRecordsFails(s, error, rnd)
               \/ WaitElapses(s) ) => batchSize' = batchSize]_vars

\* C33 witness: an advance has failed after its first shard iterator request, an
\* expired fetch, a shard iterator request that failed, waited and was answered at
\* the second attempt (or the like for the first request), and a fetch that failed
\* with an error that is neither expiry nor throttling; the batch size was never
\* assigned.
C33_Witness ==
    \E s \in Shards :
        /\ pc[s] = "failed"
        /\ adv[s].expiries = 1
        /\ issued[s] = 2
        /\ faultsLeft = MaxThrottles - 3
        /\ lastUpdate = NoUpdate
        /\ batchSize = INITIAL_BATCH_SIZE

\* C34: an attempt that catches ExpiredIteratorException does not end the advance:
\* it requests a new shard iterator under a withRetry call of its own, and the
\* answer re-issues the fetch under a new withRetry call with all ten retries,
\* however many retries the call of the expired attempt has used. Each expiry
\* that is followed by an answered request thus leaves the advance pending with
\* one more fetch outstanding and a full budget: the getRecords attempts of one
\* advance are not bounded by eleven, and an advance whose fetches all expire
\* while the requests are answered never completes.
C34_RecoveryRestartsWithFullBudget ==
    [][\A s \in Shards :
          /\ (\E rnd \in Randoms : GetRecordsExpired(s, rnd)) =>
                /\ pc'[s] = "busy"
                /\ Len(frames'[s]) = Len(frames[s]) + 1
                /\ Top(frames'[s]).op = "getShardIterator"
                /\ Top(frames'[s]).st = "inflight"
                /\ Top(frames'[s]).r = withRetry
          /\ (GetShardIteratorSucceeds(s) /\ Len(frames[s]) > 1) =>
                /\ pc'[s] = "busy"
                /\ Len(frames'[s]) = Len(frames[s])
                /\ Top(frames'[s]).op = "getRecords"
                /\ Top(frames'[s]).st = "inflight"
                /\ Top(frames'[s]).r.retries = MAX_RETRIES
                /\ Top(frames'[s]).r.prevErrors = <<>>
                /\ Front(frames'[s]) = Front(frames[s])]_vars

\* C34 witness: the fetch of an advance was throttled ten times and retried ten
\* times; the eleventh attempt, with no retry left, met an expired shard iterator;
\* the request for a new one was answered and the twelfth getRecords attempt of
\* the advance is outstanding, with ten retries ahead of it.
C34_Witness ==
    \E s \in Shards :
        /\ pc[s] = "busy"
        /\ Len(frames[s]) = 2
        /\ frames[s][1].op = "getRecords"
        /\ frames[s][1].st = "recovering"
        /\ frames[s][1].r.retries = 0
        /\ Len(frames[s][1].r.prevErrors) = MAX_RETRIES
        /\ frames[s][2].op = "getRecords"
        /\ frames[s][2].st = "inflight"
        /\ frames[s][2].r.retries = MAX_RETRIES

\* C35: a failure during the recovery from an expired shard iterator (the request
\* for a new shard iterator or the re-issued fetch ending in a report) is not
\* retried by the withRetry calls around it: a call whose attempt is recovering
\* is never invoked again and never waits, the step in which the nested call
\* throws fails the advance, and the caller gets a NonRetryableError whose cause
\* is the nested report, never an OutOfRetriesError, whatever the nested report is.
C35_RecoveryFailureIsNotRetried ==
    /\ [](\A s \in Shards :
            (pc[s] = "failed" /\ adv[s].expiries > 0) =>
                /\ ErrorName(failure[s]) = "NonRetryableError"
                /\ ErrorName(failure[s].lastError)
                      \in {"OutOfRetriesError", "NonRetryableError"})
    /\ [][\A s \in Shards :
            /\ \A i \in 1..Len(frames[s]) :
                  (frames[s][i].st = "recovering" /\ i <= Len(frames'[s])) =>
                      frames'[s][i] = frames[s][i]
            /\ ( /\ Len(frames'[s]) < Len(frames[s])
                 /\ batches'[s] = batches[s] ) =>
                      /\ frames'[s] = <<>>
                      /\ pc'[s] = "failed"]_vars

\* C35 witness: after an expiry the re-issued fetch failed eleven times with a
\* retryable throttling error and ran out of retries; the advance has failed with
\* a NonRetryableError around that OutOfRetriesError.
C35_Witness ==
    \E s \in Shards :
        /\ pc[s] = "failed"
        /\ adv[s].expiries = 1
        /\ ErrorName(failure[s]) = "NonRetryableError"
        /\ ErrorName(failure[s].lastError) = "OutOfRetriesError"
        /\ Len(failure[s].lastError.prevErrors) = MAX_RETRIES
        /\ failure[s].lastError.lastError = ThroughputExceeded(TRUE)

\* C36: no checkpoint returned by an advance carries a timestamp, and the request
\* a recovery sends when it knows no sequence number is for TRIM_HORIZON: the
\* fetch re-issued after an expiry, for a cursor that has returned no record yet,
\* reads from the start of the shard, also when the cursor was started from a
\* timestamp.
C36_ExpiryRestartsAtTrimHorizon ==
    \A s \in Shards :
        /\ batches[s] > 0 =>
              /\ result[s].checkpoint.timestamp = Null
              /\ cp[s].timestamp = Null
        /\ \A i \in 2..Len(frames[s]) :
              /\ ( /\ frames[s][i].op = "getShardIterator"
                   /\ frames[s][i].lastReadSequenceNumber = Null ) =>
                        frames[s][i].request = requestShardIterator("TRIM_HORIZON", Null, Null)
              /\ ( /\ frames[s][i].op = "getRecords"
                   /\ frames[s][i].lastReadSequenceNumber = Null ) =>
                        PosOf(frames[s][i].shardIterator) = 0

\* C36 witness: a cursor started from the timestamp of the second record met an
\* expired shard iterator in its first advance, and the first batch it returned
\* begins with the first record, which is older than the timestamp.
C36_Witness ==
    \E s \in Shards :
        /\ cp0[s] = Checkpoint(Null, Null, 2)
        /\ size[s] >= 2
        /\ batches[s] = 1
        /\ adv[s].expiries > 0
        /\ adv[s].from = 1
        /\ adv[s].at = 0
        /\ yielded[s] # <<>>
        /\ yielded[s][1] = 1
        /\ ApproximateArrivalTimestamp(yielded[s][1]) < cp0[s].timestamp

\* C37: withRetry resolves in the step in which an invocation of the operation
\* succeeds, with the result of that invocation, which is the first to succeed:
\* every invocation before it failed, and none follows. The errors of the failed
\* attempts are not reported. The operation is invoked at most eleven times, and
\* when every invocation settles and every wait ends, withRetry settles.
C37_FirstSuccessIsReturned ==
    /\ [](/\ rtCalls <= MAX_RETRIES + 1
          /\ rtState = "resolved" =>
                /\ rtResult = OpResult(rtCalls)
                /\ Len(rtThrown) = rtCalls - 1
                /\ rtError = NoError
                /\ ~ENABLED RetryNext
          /\ rtState # "resolved" => rtResult = NoResult)
    /\ [][InvokeSucceeds => (rtState' = "resolved" /\ rtCalls' = rtCalls)]_vars
    /\ <>(rtState \in {"resolved", "rejected"})

\* C37 witness: the operation failed ten times with retryable errors and succeeded
\* at its eleventh invocation; withRetry resolved with the result of that one.
C37_Witness ==
    /\ rtState = "resolved"
    /\ rtCalls = MAX_RETRIES + 1
    /\ Len(rtThrown) = MAX_RETRIES
    /\ rtResult = OpResult(MAX_RETRIES + 1)
    /\ rtError = NoError

\* The advance of the second invocation of the first next of s is under way or
\* has just returned.
InvokedAgain(s) ==
    /\ resumed[s] # NotResumed
    /\ batches[s] = 1 \/ (batches[s] = 2 /\ pc[s] # "busy")

\* C38: a next holds the checkpoint it was created with and nothing else of the
\* cursor. Invoked a second time, after its first advance has returned a batch
\* result, it performs an advance from that same checkpoint: with the same last
\* read sequence number, beginning at the position the first advance began at,
\* and reading there or (after an expiry) before, never at the position the first
\* batch result left the cursor at or anything that followed from it. Its batch is
\* the run of records at the position it read, and its checkpoint is derived from
\* the held checkpoint.
C38_NextInvokedAgainStartsFromItsCheckpoint ==
    \A s \in Shards :
        InvokedAgain(s) =>
            /\ batches[s] = 1 =>
                  /\ pc[s] = "busy"
                  /\ cp[s] = cp0[s]
                  /\ \A i \in 1..Len(frames[s]) :
                        frames[s][i].lastReadSequenceNumber = cp0[s].lastReadSequenceNumber
                  /\ adv[s].from \in {Unknown, resumed[s].at}
                  /\ yielded[s] = SubSeq(yielded[s], 1, resumed[s].len)
            /\ batches[s] = 2 =>
                  /\ adv[s].from = resumed[s].at
                  /\ adv[s].at <= resumed[s].at
                  /\ adv[s].expiries = 0 => adv[s].at = resumed[s].at
                  /\ SubSeq(yielded[s], resumed[s].len + 1, Len(yielded[s]))
                        = RecordsFrom(adv[s].at, Len(yielded[s]) - resumed[s].len)
                  /\ result[s].checkpoint
                        = getNextCheckpoint(response[s], cp0[s])

\* C38 witness: the first next, holding a shard iterator and the sequence number
\* of record 1, returned record 2; invoked again it returned record 2 again.
C38_Witness ==
    \E s \in Shards :
        /\ cp0[s] = Checkpoint(ShardIterator(1, PriorChain), 1, Null)
        /\ resumed[s] = [at |-> 1, len |-> 1]
        /\ batches[s] = 2
        /\ pc[s] # "busy"
        /\ adv[s].expiries = 0
        /\ yielded[s] = <<2, 2>>

====
